---- MODULE Spec2Model ----
(***************************************************************************)
(* Model of the MCD diagram editor's geometry core and canvas renderer.    *)
(*                                                                         *)
(* Numbers are JavaScript numbers in the source.  They are modelled as     *)
(* exact rationals [n, d] (d > 0, lowest terms; d = 0 stands for Infinity) *)
(* so that quotients such as halfW / dx are computed, not rounded.         *)
(***************************************************************************)
EXTENDS Integers, Sequences, FiniteSets, TLC

VARIABLES
    entities,       \* DiagramCanvas prop `entities`
    associations,   \* DiagramCanvas prop `associations`
    canvas,         \* which DiagramCanvas produced `drawn`: "none", "current", "legacy"
    drawn,          \* elements emitted by the last render pass, in draw order
    call,           \* function or callback under evaluation: name and arguments
    ret,            \* value it returned
    history,        \* App state `history`: snapshots {entities, associations}
    selectedId,     \* App state `selectedId`: <<>> for null, <<id>> otherwise
    selectedType,   \* App state `selectedType`: <<>> for null, <<type>> otherwise
    toast,          \* App state `toast`: <<>> for null, <<[message, type]>> otherwise
    fresh,          \* number of ids crypto.randomUUID() has handed out
    reading,        \* file a FileReader of handleImport is reading: <<>> for none
    dragging,       \* DiagramCanvas state `dragging`: <<>> for null
    dragOffset,     \* DiagramCanvas state `offset`: pointer minus dragged position
    connectionMode, \* DiagramCanvas state `connectionMode`: <<>> for null
    marquee         \* DiagramCanvas state `marquee`: <<>> for null

appVars == <<history, selectedId, selectedType, toast, fresh, reading>>
canvasVars == <<dragging, dragOffset, connectionMode, marquee>>
vars == <<entities, associations, canvas, drawn, call, ret, history, selectedId,
          selectedType, toast, fresh, reading, dragging, dragOffset, connectionMode, marquee>>


\* ------------------------------------------------------------------------
\* Exact arithmetic
\*
\* An operator that reads an argument more than once first binds it
\* (x \in {a}), so that the argument is evaluated once, as a JavaScript
\* call evaluates its arguments before the body runs.
\* ------------------------------------------------------------------------
Abs(i) == CHOOSE r \in {IF x < 0 THEN -x ELSE x : x \in {i}} : TRUE

RECURSIVE Gcd(_, _)
Gcd(a, b) ==
    CHOOSE r \in {IF y = 0 THEN x ELSE Gcd(y, x % y) : x \in {a}, y \in {b}} : TRUE

Q(n, d) ==
    CHOOSE r \in
        {IF y = 0 THEN [n |-> 1, d |-> 0]
         ELSE CHOOSE q \in {[n |-> (IF y < 0 THEN -1 ELSE 1) * (x \div g),
                             d |-> (IF y < 0 THEN -1 ELSE 1) * (y \div g)]
                            : g \in {Gcd(Abs(x), Abs(y))}} : TRUE
         : x \in {n}, y \in {d}} : TRUE

QI(i) == [n |-> i, d |-> 1]
QInfinity == [n |-> 1, d |-> 0]

QNeg(a) == CHOOSE r \in {[n |-> -x.n, d |-> x.d] : x \in {a}} : TRUE
QAdd(a, b) ==
    CHOOSE r \in
        {CHOOSE q \in {Q(x.n * (y.d \div g) + y.n * (x.d \div g), (x.d \div g) * y.d)
                       : g \in {Gcd(x.d, y.d)}} : TRUE
         : x \in {a}, y \in {b}} : TRUE
QSub(a, b) == QAdd(a, QNeg(b))
QMul(a, b) ==
    CHOOSE r \in
        {CHOOSE q \in {Q((x.n \div g1) * (y.n \div g2), (x.d \div g2) * (y.d \div g1))
                       : g1 \in {Gcd(Abs(x.n), y.d)}, g2 \in {Gcd(Abs(y.n), x.d)}} : TRUE
         : x \in {a}, y \in {b}} : TRUE
QDiv(a, b) ==
    CHOOSE r \in
        {IF y.d = 0 THEN QI(0)
         ELSE QMul(a, IF y.n < 0 THEN [n |-> -y.d, d |-> -y.n] ELSE [n |-> y.d, d |-> y.n])
         : y \in {b}} : TRUE
QAbs(a) == CHOOSE r \in {[n |-> Abs(x.n), d |-> x.d] : x \in {a}} : TRUE
QLess(a, b) ==
    CHOOSE r \in
        {IF x.d = 0 THEN FALSE
         ELSE IF y.d = 0 THEN TRUE
         ELSE x.n * y.d < y.n * x.d
         : x \in {a}, y \in {b}} : TRUE
QLeq(a, b) == CHOOSE r \in {x = y \/ QLess(x, y) : x \in {a}, y \in {b}} : TRUE
QMin(a, b) == CHOOSE r \in {IF QLess(y, x) THEN y ELSE x : x \in {a}, y \in {b}} : TRUE
QMax(a, b) == CHOOSE r \in {IF QLess(x, y) THEN y ELSE x : x \in {a}, y \in {b}} : TRUE
QZero(a) == CHOOSE r \in {x.n = 0 /\ x.d # 0 : x \in {a}} : TRUE
QPos(a) == a.n > 0
QHalf(a) == QMul(a, Q(1, 2))

RECURSIVE ISqrtIn(_, _, _)
ISqrtIn(n, lo, hi) ==
    CHOOSE r \in
        {IF l >= h THEN l
         ELSE CHOOSE q \in {IF mid * mid <= n THEN ISqrtIn(n, mid, h)
                            ELSE ISqrtIn(n, l, mid - 1)
                            : mid \in {(l + h + 1) \div 2}} : TRUE
         : l \in {lo}, h \in {hi}} : TRUE

\* Largest r with r * r <= n.
ISqrt(n) ==
    CHOOSE r \in {ISqrtIn(x, 0, IF x < 46340 THEN x ELSE 46340) : x \in {n}} : TRUE

\* Math.sqrt: exact when the argument is the square of a rational, otherwise
\* rounded down to a tenth.
QSqrt(a) ==
    CHOOSE r \in
        {CHOOSE q \in {IF rn * rn = x.n /\ rd * rd = x.d THEN Q(rn, rd)
                        ELSE Q(ISqrt((x.n * 100) \div x.d), 10)
                        : rn \in {ISqrt(x.n)}, rd \in {ISqrt(x.d)}} : TRUE
         : x \in {a}} : TRUE

\* floor(10 * a)
QTenths(a) ==
    CHOOSE r \in {(10 * x.n - ((10 * x.n) % x.d)) \div x.d : x \in {a}} : TRUE

\* Math.sqrt(dx * dx + dy * dy).  Exact on an axis and wherever the squares
\* fit the integer width; otherwise dx and dy are first rounded down to tenths.
QHypot(dx, dy) ==
    CHOOSE r \in
        {IF QZero(y) THEN QAbs(x)
         ELSE IF QZero(x) THEN QAbs(y)
         ELSE IF Abs(x.n) < 3000 /\ Abs(y.n) < 3000 /\ x.d < 100 /\ y.d < 100
              THEN QSqrt(QAdd(QMul(x, x), QMul(y, y)))
         ELSE Q(ISqrt(QTenths(x) * QTenths(x) + QTenths(y) * QTenths(y)), 10)
         : x \in {dx}, y \in {dy}} : TRUE

\* a / len for a component of a vector of length len: exact while the terms
\* fit the integer width, otherwise rounded to thousandths.
QUnit(a, len) ==
    CHOOSE r \in
        {IF Abs(x.n) < 30000 /\ x.d < 30000 /\ l.n < 30000 /\ l.d < 30000
         THEN CHOOSE q \in {IF e.d < 10000 THEN e
                            ELSE Q((QTenths(x) * 1000) \div QTenths(l), 1000)
                            : e \in {QDiv(x, l)}} : TRUE
         ELSE Q((QTenths(x) * 1000) \div QTenths(l), 1000)
         : x \in {a}, l \in {len}} : TRUE

Pt(x, y) == [x |-> x, y |-> y]
PtI(x, y) == [x |-> QI(x), y |-> QI(y)]

MaxOf(a, b) == CHOOSE r \in {IF x > y THEN x ELSE y : x \in {a}, y \in {b}} : TRUE

\* ------------------------------------------------------------------------
\* Dimension calculator (geometry.ts)
\* ------------------------------------------------------------------------
HEADER_HEIGHT == 30
ROW_HEIGHT == 24
PADDING == 20

\* measureTextWidth without a 2d canvas context: text.length * 8.
measureTextWidth(text) == Len(text) * 8

RECURSIVE maxAttrWidthOf(_, _)
maxAttrWidthOf(attrs, i) ==
    IF i > Len(attrs) THEN 0
    ELSE LET attr == attrs[i]
             attrText == IF attr.isPk THEN attr.name \o " PK" ELSE attr.name
         IN  MaxOf(measureTextWidth(attrText) + PADDING, maxAttrWidthOf(attrs, i + 1))

\* Mutation of getEntityDimensions: the requested width and height are not
\* among the arguments of Math.max.
getEntityDimensions_contentOnly(entity) ==
    LET entityNameWidth == measureTextWidth(entity.name) + PADDING
        maxAttrWidth == maxAttrWidthOf(entity.attributes, 1)
    IN  [width  |-> MaxOf(entityNameWidth, MaxOf(maxAttrWidth, 120)),
         height |-> HEADER_HEIGHT + Len(entity.attributes) * ROW_HEIGHT + PADDING]

getEntityDimensions(entity) ==
    LET entityNameWidth == measureTextWidth(entity.name) + PADDING
        maxAttrWidth == maxAttrWidthOf(entity.attributes, 1)
    IN  [width  |-> MaxOf(MaxOf(entity.width, entityNameWidth), MaxOf(maxAttrWidth, 120)),
         height |-> MaxOf(entity.height,
                          HEADER_HEIGHT + Len(entity.attributes) * ROW_HEIGHT + PADDING)]

RECURSIVE prefixedAttrWidthOf(_, _, _)
\* entity.attributes.reduce((max, attr) => Math.max(max, attrText.length *
\* charWidth + 20), 0) with attrText = (attr.isPk ? 'PK ' : '') + attr.name
prefixedAttrWidthOf(attrs, charWidth, i) ==
    IF i > Len(attrs) THEN 0
    ELSE LET attr == attrs[i]
             attrText == IF attr.isPk THEN "PK " \o attr.name ELSE attr.name
         IN  MaxOf(Len(attrText) * charWidth + 20, prefixedAttrWidthOf(attrs, charWidth, i + 1))

\* calculatedWidth and calculatedHeight of the EntityBox component.
EntityBox(entity) ==
    LET headerHeight == 30
        rowHeight == 24
        padding == 10
        charWidth == 8
        entityNameWidth == Len(entity.name) * charWidth + 20
        maxAttrWidth == prefixedAttrWidthOf(entity.attributes, charWidth, 1)
    IN  [width  |-> MaxOf(MaxOf(entity.width, entityNameWidth), MaxOf(maxAttrWidth, 120)),
         height |-> MaxOf(entity.height,
                          headerHeight + Len(entity.attributes) * rowHeight + padding)]

\* getEntityDims of handleExportPng, with the constants of its file:
\* HEADER_HEIGHT 30, ROW_HEIGHT 24, PADDING 10, CHAR_WIDTH 8.
getEntityDims(entity) ==
    LET entityNameWidth == Len(entity.name) * 8 + 20
        maxAttrWidth == prefixedAttrWidthOf(entity.attributes, 8, 1)
    IN  [width  |-> MaxOf(MaxOf(entity.width, entityNameWidth), MaxOf(maxAttrWidth, 120)),
         height |-> MaxOf(entity.height, 30 + Len(entity.attributes) * 24 + 10)]

\* getCenter of an Entity (the branch taken when the record has a width).
getCenter(entity) ==
    LET dims == getEntityDimensions(entity)
    IN  Pt(Q(2 * entity.x + dims.width, 2), Q(2 * entity.y + dims.height, 2))

\* ------------------------------------------------------------------------
\* Geometry primitives (geometry.ts)
\* ------------------------------------------------------------------------
\* getIntersection(center, target, rect): the `center` argument is never read;
\* the ray starts at the centre of rect.
getIntersection(center, target, rect) ==
    CHOOSE r \in
        {LET cx == Q(2 * rect.x + dims.width, 2)
             cy == Q(2 * rect.y + dims.height, 2)
             halfW == Q(dims.width, 2)
             halfH == Q(dims.height, 2)
         IN  CHOOSE q \in
                 {IF QZero(dx) /\ QZero(dy) THEN Pt(cx, cy)
                  ELSE LET tx == IF ~QZero(dx)
                                 THEN QDiv(IF QPos(dx) THEN halfW ELSE QNeg(halfW), dx)
                                 ELSE QInfinity
                           ty == IF ~QZero(dy)
                                 THEN QDiv(IF QPos(dy) THEN halfH ELSE QNeg(halfH), dy)
                                 ELSE QInfinity
                       IN  CHOOSE p \in {Pt(QAdd(cx, QMul(dx, t)), QAdd(cy, QMul(dy, t)))
                                         : t \in {QMin(QAbs(tx), QAbs(ty))}} : TRUE
                  : dx \in {QSub(tgt.x, cx)}, dy \in {QSub(tgt.y, cy)}} : TRUE
         : tgt \in {target}, dims \in {getEntityDimensions(rect)}} : TRUE

\* Mutation of getLabelPosition: the unit vector is not scaled by distance.
getLabelPosition_unscaled(start, end, distance) ==
    CHOOSE r \in
        {CHOOSE q \in
             {CHOOSE p \in
                  {IF QZero(len) THEN s
                   ELSE Pt(QAdd(s.x, QUnit(dx, len)), QAdd(s.y, QUnit(dy, len)))
                   : len \in {QHypot(dx, dy)}} : TRUE
              : dx \in {QSub(e.x, s.x)}, dy \in {QSub(e.y, s.y)}} : TRUE
         : s \in {start}, e \in {end}} : TRUE

getLabelPosition(start, end, distance) ==
    CHOOSE r \in
        {CHOOSE q \in
             {CHOOSE p \in
                  {IF QZero(len) THEN s
                   ELSE Pt(QAdd(s.x, QMul(QUnit(dx, len), QI(distance))),
                           QAdd(s.y, QMul(QUnit(dy, len), QI(distance))))
                   : len \in {QHypot(dx, dy)}} : TRUE
              : dx \in {QSub(e.x, s.x)}, dy \in {QSub(e.y, s.y)}} : TRUE
         : s \in {start}, e \in {end}} : TRUE

\* getLineIntersection: Null is the empty sequence, a point is <<p>>.
\* The arguments are bound as the two segments <<x1, y1, x2, y2>>, <<x3, y3, x4, y4>>.
getLineIntersection(x1, y1, x2, y2, x3, y3, x4, y4) ==
    CHOOSE r \in
        {CHOOSE q \in
             {IF QZero(denom) THEN <<>>
              ELSE CHOOSE p \in
                       {IF QLeq(QI(0), ua) /\ QLeq(ua, QI(1)) /\ QLeq(QI(0), ub) /\ QLeq(ub, QI(1))
                        THEN <<Pt(QAdd(a[1], QMul(ua, QSub(a[3], a[1]))),
                                  QAdd(a[2], QMul(ua, QSub(a[4], a[2]))))>>
                        ELSE <<>>
                        : ua \in {QDiv(QSub(QMul(QSub(b[3], b[1]), QSub(a[2], b[2])),
                                            QMul(QSub(b[4], b[2]), QSub(a[1], b[1]))), denom)},
                          ub \in {QDiv(QSub(QMul(QSub(a[3], a[1]), QSub(a[2], b[2])),
                                            QMul(QSub(a[4], a[2]), QSub(a[1], b[1]))), denom)}}
                       : TRUE
              : denom \in {QSub(QMul(QSub(b[4], b[2]), QSub(a[3], a[1])),
                                QMul(QSub(b[3], b[1]), QSub(a[4], a[2])))}} : TRUE
         : a \in {<<x1, y1, x2, y2>>}, b \in {<<x3, y3, x4, y4>>}} : TRUE

\* Every intersection lies at center + ua * (target - center) with ua >= 0, so
\* its distance to center is ua * |target - center|.  along() recovers ua.
along(inter, center, target) ==
    CHOOSE r \in
        {IF ~QZero(QSub(t.x, c.x))
         THEN QDiv(QSub(i.x, c.x), QSub(t.x, c.x))
         ELSE QDiv(QSub(i.y, c.y), QSub(t.y, c.y))
         : i \in {inter}, c \in {center}, t \in {target}} : TRUE

\* The loop of getPolygonIntersection from edge i on; best is [point, dist],
\* dist in units of |target - center| (exact, where Math.sqrt would round).
RECURSIVE polygonScan(_, _, _, _, _)
polygonScan(center, target, points, i, best) ==
    IF i > Len(points) THEN best.point
    ELSE CHOOSE r \in
             {IF Len(inter) = 1 /\ QLess(along(inter[1], center, target), best.dist)
              THEN polygonScan(center, target, points, i + 1,
                               [point |-> inter[1], dist |-> along(inter[1], center, target)])
              ELSE polygonScan(center, target, points, i + 1, best)
              : inter \in {getLineIntersection(center.x, center.y, target.x, target.y,
                                               points[i].x, points[i].y,
                                               points[(i % Len(points)) + 1].x,
                                               points[(i % Len(points)) + 1].y)}} : TRUE

getPolygonIntersection(center, target, points) ==
    CHOOSE r \in
        {IF Len(ps) < 2 THEN c
         ELSE polygonScan(c, t, ps, 1, [point |-> c, dist |-> QInfinity])
         : c \in {center}, t \in {target}, ps \in {points}} : TRUE

\* ------------------------------------------------------------------------
\* Shape generator (geometry.ts)
\* ------------------------------------------------------------------------
\* 1000 * Math.cos of a whole number of degrees in the first quadrant, for the
\* angles that regular polygons of 4, 5 and 6 sides use.
CosTable ==
    [deg \in {0, 18, 30, 36, 45, 54, 60, 72, 90} |->
        CASE deg = 0 -> 1000 [] deg = 18 -> 951 [] deg = 30 -> 866 [] deg = 36 -> 809
          [] deg = 45 -> 707 [] deg = 54 -> 588 [] deg = 60 -> 500 [] deg = 72 -> 309
          [] deg = 90 -> 0]

CosMilli(deg) ==
    LET a == ((deg % 360) + 360) % 360
    IN  IF a <= 90 THEN CosTable[a]
        ELSE IF a <= 180 THEN -CosTable[180 - a]
        ELSE IF a <= 270 THEN -CosTable[a - 180]
        ELSE CosTable[360 - a]

SinMilli(deg) == CosMilli(deg - 90)

\* The loop that pushes `sides` vertices at angleOffset + i * 2 * PI / sides
\* (angles in degrees here).
polygonPoints(cx, cy, r, sides, angleOffset) ==
    [i \in 1..sides |->
        LET theta == angleOffset + ((i - 1) * 360) \div sides
        IN  Pt(QAdd(cx, QMul(r, Q(CosMilli(theta), 1000))),
               QAdd(cy, QMul(r, Q(SinMilli(theta), 1000))))]

\* Mutation of angleOffsetOf: no quarter turn for four sides.
angleOffsetOf_noTurn(sides) == -90

\* angleOffset = -Math.PI / 2 + (sides === 4 ? Math.PI / 4 : 0)
angleOffsetOf(sides) == -90 + (IF sides = 4 THEN 45 ELSE 0)

\* Mutation of shapeBranch: "< 2" for "<= 2".
shapeBranch_boxBelowTwo(count) ==
    IF count < 2 THEN "box" ELSE IF count = 3 THEN "triangle" ELSE "polygon"

\* The branch a connection count selects: "box", "triangle" or "polygon".
shapeBranch(count) ==
    IF count <= 2 THEN "box" ELSE IF count = 3 THEN "triangle" ELSE "polygon"

getAssociationShapePoints(association) ==
    LET count == Len(association.connections)
        cx == QI(association.x)
        cy == QI(association.y)
        size == 40
    IN  IF shapeBranch(count) = "box" THEN
            LET w == QI(MaxOf(40, Len(association.label) * 7 + 10))
                h == QI(20)
            IN  << Pt(QSub(cx, QHalf(w)), QSub(cy, QHalf(h))),
                   Pt(QAdd(cx, QHalf(w)), QSub(cy, QHalf(h))),
                   Pt(QAdd(cx, QHalf(w)), QAdd(cy, QHalf(h))),
                   Pt(QSub(cx, QHalf(w)), QAdd(cy, QHalf(h))) >>
        ELSE IF shapeBranch(count) = "triangle" THEN
            LET r == Q(size * 12, 10)
            IN  << Pt(cx, QSub(cy, r)),
                   Pt(QAdd(cx, QMul(r, Q(866, 1000))), QAdd(cy, QMul(r, Q(5, 10)))),
                   Pt(QSub(cx, QMul(r, Q(866, 1000))), QAdd(cy, QMul(r, Q(5, 10)))) >>
        ELSE polygonPoints(cx, cy, QI(size), count, angleOffsetOf(count))

\* ------------------------------------------------------------------------
\* Canvas renderer (DiagramCanvas.tsx, AssociationNode.tsx)
\* ------------------------------------------------------------------------
\* entities.find(e => e.id === id): the position of the first match, 0 when
\* find returns undefined.
RECURSIVE findFrom(_, _, _)
findFrom(ents, id, i) ==
    IF i > Len(ents) THEN 0
    ELSE IF ents[i].id = id THEN i
    ELSE findFrom(ents, id, i + 1)

find(ents, id) == findFrom(ents, id, 1)

\* findIndex over the kept positions idxs of seq: 0-based as in the source,
\* -1 when absent.
RECURSIVE findIndexIn(_, _, _, _)
findIndexIn(seq, idxs, id, k) ==
    IF k > Len(idxs) THEN -1
    ELSE IF seq[idxs[k]].id = id THEN k - 1
    ELSE findIndexIn(seq, idxs, id, k + 1)

\* Ids in the order String comparison gives them ([a, b].sort()).
IdsSorted == <<"1", "2", "3", "9">>
IdRank(id) == CHOOSE k \in 1..Len(IdsSorted) : IdsSorted[k] = id

\* [id1, id2].sort().join('-')
pairKeyOf(id1, id2) ==
    IF IdRank(id2) < IdRank(id1) THEN id2 \o "-" \o id1 ELSE id1 \o "-" \o id2

\* A rendered element.  Optional parts are sequences of length 0 or 1;
\* connIndex is the index renderConnection was called with (-1 for a node).
Element(kind, assocId, key) ==
    [kind |-> kind, assocId |-> assocId, key |-> key, connIndex |-> -1,
     lines |-> <<>>, labelPoint |-> <<>>, cardinalityPoints |-> <<>>,
     shapePoints |-> <<>>, attributeBox |-> <<>>,
     offsetAmount |-> <<>>, offset |-> <<>>]

\* What a render pass yields when a handler dereferences undefined.
Throw == <<Element("TypeError", "", "")>>
Null == <<>>

trimIsEmpty(text) == text \in {"", " ", "  "}

\* displayName of the association's attribute box; entityName is <<>> when absent.
displayNameOf(assoc) ==
    IF Len(assoc.entityName) = 1 /\ assoc.entityName[1] # "" /\ ~trimIsEmpty(assoc.entityName[1])
    THEN assoc.entityName[1]
    ELSE assoc.label

RECURSIVE boxAttrWidthOf(_, _)
boxAttrWidthOf(attrs, i) ==
    IF i > Len(attrs) THEN 0
    ELSE LET attr == attrs[i]
             attrText == IF attr.isPk THEN "PK " \o attr.name ELSE attr.name
         IN  MaxOf(Len(attrText) * 8 + 20, boxAttrWidthOf(attrs, i + 1))

\* boxWidth, boxHeight of the attribute box (same formula in every mode).
boxDimensions(assoc) ==
    LET nameWidth == Len(displayNameOf(assoc)) * 8 + 20
        maxAttrWidth == boxAttrWidthOf(assoc.attributes, 1)
    IN  [width  |-> MaxOf(140, MaxOf(nameWidth, maxAttrWidth)),
         height |-> MaxOf(40, 30 + Len(assoc.attributes) * 24 + 5)]

\* The box at its stored position, or at the mode's default.
boxAt(assoc, defaultBoxX, defaultBoxY) ==
    LET dims == boxDimensions(assoc)
    IN  [x |-> IF Len(assoc.entityBoxX) = 1 THEN QI(assoc.entityBoxX[1]) ELSE defaultBoxX,
         y |-> IF Len(assoc.entityBoxY) = 1 THEN QI(assoc.entityBoxY[1]) ELSE defaultBoxY,
         width |-> dims.width, height |-> dims.height]

\* The box with the dashed line that ties it to the association: from the
\* label point or node centre to (boxCenterX, boxCenterY), which is the middle
\* of the box's top edge under a locked line and the box's centre otherwise.
anchored(box, from, onTopEdge) ==
    CHOOSE r \in
        {[x |-> b.x, y |-> b.y, width |-> b.width, height |-> b.height,
          anchorLine |-> [from |-> f,
                          to |-> Pt(QAdd(b.x, QHalf(QI(b.width))),
                                    IF onTopEdge THEN b.y
                                    ELSE QAdd(b.y, QHalf(QI(b.height))))]]
            : b \in {box}, f \in {from}} : TRUE

\* Mutation of isSelfRefOn: only connections[0] is compared.
isSelfRefOn_firstOnly(a, entityId) ==
    /\ Len(a.connections) = 2
    /\ a.connections[1].entityId = entityId

\* The filter of renderSelfReferencingConnection: both connections on the entity.
isSelfRefOn(a, entityId) ==
    /\ Len(a.connections) = 2
    /\ a.connections[1].entityId = entityId
    /\ a.connections[2].entityId = entityId

isLockedBinaryOn(a, pairKey) ==
    IF Len(a.connections) # 2 \/ a.isLabelMovable THEN FALSE
    ELSE pairKeyOf(a.connections[1].entityId, a.connections[2].entityId) = pairKey

\* associations.filter(a => ...) for the two sibling filters: the positions
\* kept, in order.  which = "selfRef" keeps the self-references on entity id
\* `key`; which = "pair" keeps the locked binaries whose pair key is `key`.
RECURSIVE filterIdx(_, _, _, _)
filterIdx(seq, which, key, i) ==
    IF i > Len(seq) THEN <<>>
    ELSE (IF (IF which = "selfRef" THEN isSelfRefOn(seq[i], key)
                                   ELSE isLockedBinaryOn(seq[i], key))
          THEN <<i>> ELSE <<>>)
         \o filterIdx(seq, which, key, i + 1)

renderSelfReferencingConnection(ents, assocs, assoc, entity1) ==
    LET dims == getEntityDimensions(entity1)
        entityCenterY == Q(2 * entity1.y + dims.height, 2)
        selfRefAssocs == filterIdx(assocs, "selfRef", entity1.id, 1)
        selfRefIndex == findIndexIn(assocs, selfRefAssocs, assoc.id, 1)
        loopOffset == selfRefIndex * 40
        defaultExtendX == entity1.x + dims.width + 50 + loopOffset
        defaultLabelX == defaultExtendX + 5
        labelX == IF assoc.isLabelMovable THEN QI(assoc.x) ELSE QI(defaultLabelX)
        labelY == IF assoc.isLabelMovable THEN QI(assoc.y) ELSE entityCenterY
        startX == QI(entity1.x + dims.width)
        startY == QSub(entityCenterY, QI(15))
        endY == QAdd(entityCenterY, QI(15))
        extendX == QI(defaultExtendX)
        card1 == Pt(QHalf(QAdd(startX, extendX)), QSub(startY, QI(8)))
        card2 == Pt(QHalf(QAdd(startX, extendX)), QAdd(endY, QI(15)))
        boxH == QI(boxDimensions(assoc).height)
        base == Element("selfRef", assoc.id, assoc.id \o "-self-ref")
    IN  <<[base EXCEPT
            \* the angular path of a movable loop (atan2, cos, sin of a free
            \* angle) is not computed: only its label point is
            !.lines = IF assoc.isLabelMovable THEN <<>>
                      ELSE << <<Pt(startX, startY), Pt(extendX, startY)>>,
                              <<Pt(extendX, startY), Pt(extendX, endY)>>,
                              <<Pt(extendX, endY), Pt(startX, endY)>> >>,
            !.labelPoint = <<Pt(labelX, labelY)>>,
            !.cardinalityPoints = IF assoc.isLabelMovable THEN <<>> ELSE <<card1, card2>>,
            !.attributeBox = IF Len(assoc.attributes) > 0
                             THEN <<anchored(boxAt(assoc, QI(defaultExtendX + 20),
                                                   QSub(labelY, QHalf(boxH))),
                                             Pt(labelX, labelY), FALSE)>>
                             ELSE <<>>]>>

\* The element the isBinaryLocked branch returns, from the two centres and the
\* perpendicular offset on.
lockedLine(assoc, entity1, entity2, center1, center2, offsetAmount, offset) ==
    CHOOSE el \in
        {CHOOSE e2 \in
             {CHOOSE e3 \in
                  {[Element("binary", assoc.id, assoc.id \o "-binary") EXCEPT
                       !.lines = << <<finalBorder1, finalBorder2>> >>,
                       !.labelPoint = <<mid>>,
                       !.cardinalityPoints = <<getLabelPosition(finalBorder1, finalBorder2, 15),
                                               getLabelPosition(finalBorder2, finalBorder1, 15)>>,
                       !.attributeBox =
                           IF Len(assoc.attributes) > 0
                           THEN <<anchored(boxAt(assoc,
                                                 QSub(mid.x,
                                                      QHalf(QI(boxDimensions(assoc).width))),
                                                 QAdd(mid.y, QI(20))),
                                           mid, TRUE)>>
                           ELSE <<>>,
                       !.offsetAmount = <<offsetAmount>>,
                       !.offset = <<offset>>]
                   : mid \in {Pt(QHalf(QAdd(finalBorder1.x, finalBorder2.x)),
                                 QHalf(QAdd(finalBorder1.y, finalBorder2.y)))}} : TRUE
              : finalBorder1 \in {Pt(QAdd(border1.x, offset.x), QAdd(border1.y, offset.y))},
                finalBorder2 \in {Pt(QAdd(border2.x, offset.x), QAdd(border2.y, offset.y))}} : TRUE
         : border1 \in {getIntersection(center1,
                                        Pt(QAdd(center2.x, offset.x), QAdd(center2.y, offset.y)),
                                        entity1)},
           border2 \in {getIntersection(center2,
                                        Pt(QAdd(center1.x, offset.x), QAdd(center1.y, offset.y)),
                                        entity2)}} : TRUE

\* The isBinaryLocked branch of renderConnection: the sibling rank, the
\* perpendicular (perpX, perpY) and the offset it is scaled to.
renderBinaryLocked(ents, assocs, assoc, connIndex) ==
    LET i1 == find(ents, assoc.connections[1].entityId)
        i2 == find(ents, assoc.connections[2].entityId)
    IN  IF i1 = 0 \/ i2 = 0 THEN Null
        ELSE IF connIndex # 0 THEN Null
        ELSE
        LET entity1 == ents[i1]
            entity2 == ents[i2]
            pairKey == pairKeyOf(entity1.id, entity2.id)
            offsetSpacing == 25
        IN  CHOOSE out \in
                {CHOOSE o2 \in
                     {CHOOSE o3 \in
                          {<<lockedLine(assoc, entity1, entity2, center1, center2, offsetAmount,
                                        Pt(QMul(perp.x, offsetAmount), QMul(perp.y, offsetAmount)))>>
                           : perp \in {IF QPos(len) THEN Pt(QDiv(QNeg(d.y), len), QDiv(d.x, len))
                                       ELSE Pt(QI(0), QI(1))},
                             offsetAmount \in
                                 {QMul(Q(2 * findIndexIn(assocs, sameEntityPairAssocs, assoc.id, 1)
                                           - (Len(sameEntityPairAssocs) - 1), 2),
                                       QI(offsetSpacing))}} : TRUE
                      : len \in {QHypot(d.x, d.y)}} : TRUE
                 : center1 \in {getCenter(entity1)}, center2 \in {getCenter(entity2)},
                   d \in {Pt(QSub(getCenter(entity2).x, getCenter(entity1).x),
                             QSub(getCenter(entity2).y, getCenter(entity1).y))},
                   sameEntityPairAssocs \in {filterIdx(assocs, "pair", pairKey, 1)}} : TRUE

\* "Standard rendering for non-binary or movable associations": one spoke.
\* ei is the position find gave for the connection's entity; getCenter of
\* undefined is a TypeError.
renderStandard(ents, assoc, connIndex, ei) ==
    IF ei = 0 THEN Throw
    ELSE
    LET entity == ents[ei]
        conn == assoc.connections[connIndex + 1]
        centerA == PtI(assoc.x, assoc.y)
        centerE == getCenter(entity)
        borderE == getIntersection(centerE, centerA, entity)
        assocPoints == getAssociationShapePoints(assoc)
        borderA == getPolygonIntersection(centerA, centerE, assocPoints)
        cardPos == getLabelPosition(borderE, centerA, 15)
        base == Element("spoke", assoc.id, assoc.id \o "-" \o conn.id)
    IN  <<[base EXCEPT
            !.lines = << <<borderA, borderE>> >>,
            !.cardinalityPoints = <<cardPos>>]>>

\* Mutation of isBinaryLocked: ">= 2" for "=== 2".
isBinaryLocked_atLeastTwo(assoc) == Len(assoc.connections) >= 2 /\ ~assoc.isLabelMovable

\* const isBinaryLocked = assoc.connections.length === 2 && !assoc.isLabelMovable
isBinaryLocked(assoc) == Len(assoc.connections) = 2 /\ ~assoc.isLabelMovable

\* Mutation of renderConnection: the `if (!entity) return null` guard is gone.
renderConnection_noEntityGuard(ents, assocs, assoc, connIndex) ==
    LET conn == assoc.connections[connIndex + 1]
        ei == find(ents, conn.entityId)
        i1 == find(ents, assoc.connections[1].entityId)
        i2 == find(ents, assoc.connections[2].entityId)
    IN  IF Len(assoc.connections) = 2 /\ i1 # 0 /\ i2 # 0 /\ ents[i1].id = ents[i2].id
        THEN IF connIndex # 0 THEN Null
             ELSE renderSelfReferencingConnection(ents, assocs, assoc, ents[i1])
        ELSE IF isBinaryLocked(assoc) THEN renderBinaryLocked(ents, assocs, assoc, connIndex)
        ELSE renderStandard(ents, assoc, connIndex, ei)

\* renderConnection of the DiagramCanvas that detects self-references.
\* connIndex is 0-based as in the source.
renderConnection(ents, assocs, assoc, connIndex) ==
    LET conn == assoc.connections[connIndex + 1]
        ei == find(ents, conn.entityId)
        i1 == find(ents, assoc.connections[1].entityId)
        i2 == find(ents, assoc.connections[2].entityId)
    IN  IF ei = 0 THEN Null
        ELSE IF Len(assoc.connections) = 2 /\ i1 # 0 /\ i2 # 0 /\ ents[i1].id = ents[i2].id
             THEN IF connIndex # 0 THEN Null
                  ELSE renderSelfReferencingConnection(ents, assocs, assoc, ents[i1])
        ELSE IF isBinaryLocked(assoc) THEN renderBinaryLocked(ents, assocs, assoc, connIndex)
        ELSE renderStandard(ents, assoc, connIndex, ei)

\* renderConnection of components/DiagramCanvas.tsx: no self-reference branch.
renderConnectionLegacy(ents, assocs, assoc, connIndex) ==
    LET conn == assoc.connections[connIndex + 1]
        ei == find(ents, conn.entityId)
    IN  IF ei = 0 THEN Null
        ELSE IF isBinaryLocked(assoc) THEN renderBinaryLocked(ents, assocs, assoc, connIndex)
        ELSE renderStandard(ents, assoc, connIndex, ei)

\* <AssociationNode>: the polygon (or label box), the label and the attribute box.
AssociationNode(association) ==
    LET isBinary == Len(association.connections) <= 2
        boxW == QI(boxDimensions(association).width)
        base == Element("node", association.id, association.id)
    IN  <<[base EXCEPT
            !.shapePoints = getAssociationShapePoints(association),
            !.labelPoint = <<PtI(association.x, association.y)>>,
            !.attributeBox =
                IF Len(association.attributes) > 0
                THEN <<anchored(boxAt(association,
                                      QSub(QI(association.x), QHalf(boxW)),
                                      QI(association.y + (IF isBinary THEN 30 ELSE 60))),
                                PtI(association.x, association.y), FALSE)>>
                ELSE <<>>]>>

\* Mutation of nodeFilter: self-referencing associations are not skipped.
nodeFilter_keepsSelfRef(assoc) == ~(Len(assoc.connections) = 2 /\ ~assoc.isLabelMovable)

\* The filter in front of the AssociationNode map.
nodeFilter(assoc) ==
    IF Len(assoc.connections) = 2 /\ ~assoc.isLabelMovable THEN FALSE
    ELSE IF Len(assoc.connections) = 2
            /\ assoc.connections[1].entityId = assoc.connections[2].entityId THEN FALSE
    ELSE TRUE

\* Mutation of nodeFilterLegacy: nothing is skipped.
nodeFilterLegacy_keepsAll(assoc) == TRUE

\* components/DiagramCanvas.tsx skips only the locked binary associations.
nodeFilterLegacy(assoc) == ~(Len(assoc.connections) = 2 /\ ~assoc.isLabelMovable)

\* One call of the canvas's renderConnection, tagged with its index.
renderOne(ents, assocs, which, assoc, connIndex) ==
    LET out == IF which = "legacy"
               THEN renderConnectionLegacy(ents, assocs, assoc, connIndex)
               ELSE renderConnection(ents, assocs, assoc, connIndex)
    IN  [k \in 1..Len(out) |-> [out[k] EXCEPT !.connIndex = connIndex]]

\* associations.map(assoc => assoc.connections.map((_, idx) => renderConnection(assoc, idx)))
RECURSIVE connectionsPass(_, _, _, _, _)
connectionsPass(ents, assocs, which, a, c) ==
    IF a > Len(assocs) THEN <<>>
    ELSE IF c > Len(assocs[a].connections) THEN connectionsPass(ents, assocs, which, a + 1, 1)
    ELSE renderOne(ents, assocs, which, assocs[a], c - 1)
         \o connectionsPass(ents, assocs, which, a, c + 1)

\* associations.filter(...).map(assoc => <AssociationNode .../>)
RECURSIVE nodesPass(_, _, _)
nodesPass(assocs, which, a) ==
    IF a > Len(assocs) THEN <<>>
    ELSE (IF (IF which = "legacy" THEN nodeFilterLegacy(assocs[a]) ELSE nodeFilter(assocs[a]))
          THEN AssociationNode(assocs[a]) ELSE <<>>)
         \o nodesPass(assocs, which, a + 1)

\* A render either yields every element or throws.
settle(elements) ==
    IF \E i \in 1..Len(elements) : elements[i].kind = "TypeError" THEN Throw ELSE elements

DiagramCanvas(ents, assocs) ==
    settle(connectionsPass(ents, assocs, "current", 1, 1) \o nodesPass(assocs, "current", 1))

DiagramCanvasLegacy(ents, assocs) ==
    settle(connectionsPass(ents, assocs, "legacy", 1, 1) \o nodesPass(assocs, "legacy", 1))

\* ------------------------------------------------------------------------
\* Bounded inputs
\* ------------------------------------------------------------------------
MaxAssocs == 3      \* associations in a diagram
MaxConn == 4        \* connections of an association

EntityIds == <<"1", "2", "3">>
DanglingId == "9"

Attr(id, name, isPk) == [id |-> id, name |-> name, isPk |-> isPk]
Entity(id, name, x, y, width, height, attributes) ==
    [id |-> id, name |-> name, x |-> x, y |-> y, width |-> width, height |-> height,
     attributes |-> attributes]

\* Centres (80,50), (480,50), (80,350): pairwise distances 400, 300, 500.
LayoutTriangle ==
    << Entity("1", "A", 0, 0, 160, 100, <<>>),
       Entity("2", "B", 400, 0, 160, 100, <<>>),
       Entity("3", "Station", 0, 289, 160, 100,
              <<Attr("c1", "nomstat", TRUE), Attr("c2", "altstat", FALSE),
                Attr("c3", "region", FALSE)>>) >>

\* Entity 2 lies on top of entity 1 (same centre (80,50)); entity 3 is
\* narrower than the minimum width.
LayoutStacked ==
    << Entity("1", "A", 0, 0, 160, 100, <<>>),
       Entity("2", "B", 20, 10, 120, 80, <<>>),
       Entity("3", "C", 420, 0, 100, 100, <<>>) >>

\* Centres (80,50) and (480,350): entities 1 and 2 on a 3-4-5 diagonal.
LayoutDiagonal ==
    << Entity("1", "A", 0, 0, 160, 100, <<>>),
       Entity("2", "B", 400, 300, 160, 100, <<>>),
       Entity("3", "C", 0, 300, 160, 100, <<>>) >>

Layouts == {LayoutTriangle, LayoutStacked, LayoutDiagonal}

ConnIds == <<"c1", "c2", "c3", "c4", "c5", "c6">>
AssocIds == <<"a1", "a2", "a3", "a4", "a5">>

Connections(targets) ==
    [i \in 1..Len(targets) |-> [id |-> ConnIds[i], entityId |-> targets[i], cardinality |-> "0..*"]]

\* n targets cycling through the entities from position s.
Cycle(n, s) == [i \in 1..n |-> EntityIds[((s + i - 1) % Len(EntityIds)) + 1]]
\* the same with a dangling entityId at position k.
DanglingAt(n, k) == [i \in 1..n |-> IF i = k THEN DanglingId ELSE Cycle(n, 0)[i]]

AllIds == {EntityIds[i] : i \in 1..Len(EntityIds)} \cup {DanglingId}

TargetLists ==
    {<<>>} \cup {<<a>> : a \in AllIds} \cup {<<a, b>> : a, b \in AllIds}
    \cup {Cycle(n, s) : n \in 3..MaxConn, s \in 0..1}
    \cup UNION {{DanglingAt(n, k) : k \in 1..n} : n \in 3..MaxConn}

Template(targets, movable, withAttrs) ==
    [targets |-> targets, movable |-> movable, withAttrs |-> withAttrs]

SingleTemplates ==
    {Template(t, m, FALSE) : t \in TargetLists, m \in BOOLEAN}
    \cup {Template(t, m, TRUE) : t \in {<<"1", "2">>, <<"1", "1">>, <<"1", "2", "3">>},
                                 m \in BOOLEAN}

\* What the associations of a larger diagram are drawn from: the pair 1-2 in
\* both orders, locked and movable, a self-reference and a ternary.
SiblingTemplates ==
    {Template(<<"1", "2">>, FALSE, FALSE), Template(<<"2", "1">>, FALSE, FALSE),
     Template(<<"1", "2">>, TRUE, FALSE), Template(<<"1", "1">>, FALSE, TRUE),
     Template(<<"1", "2", "3">>, FALSE, FALSE)}

Association(i, tpl) ==
    [id |-> AssocIds[i], label |-> "rel", entityName |-> <<>>,
     x |-> 280, y |-> 150 + 50 * i,
     entityBoxX |-> <<>>, entityBoxY |-> <<>>,
     attributes |-> IF tpl.withAttrs THEN <<Attr("s1", "score", FALSE)>> ELSE <<>>,
     connections |-> Connections(tpl.targets),
     isLabelMovable |-> tpl.movable]

Diagrams ==
    {<<Association(1, tpl)>> : tpl \in SingleTemplates}
    \cup UNION {{[i \in 1..n |-> Association(i, tpls[i])] : tpls \in [1..n -> SiblingTemplates]}
                : n \in 2..MaxAssocs}

\* ------------------------------------------------------------------------
\* Rendering a diagram
\* ------------------------------------------------------------------------
NoCall == [fn |-> "none"]

\* The App and canvas state right after mounting (useState initial values).
Mounted ==
    /\ history = <<>>
    /\ selectedId = <<>>
    /\ selectedType = <<>>
    /\ toast = <<>>
    /\ fresh = 0
    /\ reading = <<>>
    /\ dragging = <<>>
    /\ dragOffset = [x |-> QI(0), y |-> QI(0)]
    /\ connectionMode = <<>>
    /\ marquee = <<>>

InitRender ==
    /\ entities \in Layouts
    /\ associations \in Diagrams
    /\ canvas = "none"
    /\ drawn = <<>>
    /\ call = NoCall
    /\ ret = <<>>
    /\ Mounted

\* One render of the DiagramCanvas with self-reference detection.  A render is
\* a function of the props, so each diagram is painted once.
\* Mutation of Render: the pair key is built by sorting the association's own
\* connections instead of a fresh two-element array.
Render_sortsInPlace ==
    /\ canvas = "none"
    /\ canvas' = "current"
    /\ drawn' = DiagramCanvas(entities, associations)
    /\ associations' =
           [k \in 1..Len(associations) |->
               LET a == associations[k]
               IN  IF Len(a.connections) = 2
                      /\ IdRank(a.connections[2].entityId) < IdRank(a.connections[1].entityId)
                   THEN [a EXCEPT !.connections = <<a.connections[2], a.connections[1]>>]
                   ELSE a]
    /\ UNCHANGED <<entities, call, ret, appVars, canvasVars>>

Render ==
    /\ canvas = "none"
    /\ canvas' = "current"
    /\ drawn' = DiagramCanvas(entities, associations)
    /\ UNCHANGED <<entities, associations, call, ret, appVars, canvasVars>>

\* One render of components/DiagramCanvas.tsx.
RenderLegacy ==
    /\ canvas = "none"
    /\ canvas' = "legacy"
    /\ drawn' = DiagramCanvasLegacy(entities, associations)
    /\ UNCHANGED <<entities, associations, call, ret, appVars, canvasVars>>

NextRender == Render \/ RenderLegacy

SpecRender == InitRender /\ [][NextRender]_vars

\* ------------------------------------------------------------------------
\* Sidebar: attribute lists
\* ------------------------------------------------------------------------
\* attrs.splice(index, 1) and attrs.splice(index, 0, item), index 1-based here.
spliceOut(attrs, index) == SubSeq(attrs, 1, index - 1) \o SubSeq(attrs, index + 1, Len(attrs))
spliceIn(attrs, index, item) ==
    SubSeq(attrs, 1, index - 1) \o <<item>> \o SubSeq(attrs, index, Len(attrs))

\* What reorderAttributes hands to onUpdateEntity / onUpdateAssociation;
\* updated is FALSE on the early returns, where no update is issued.
NoUpdate(attributes) == [updated |-> FALSE, attributes |-> attributes]

\* Mutation of reorderAttributes: the two attributes trade places.
reorderAttributes_swap(attributes, fromId, toId) ==
    IF fromId = toId THEN NoUpdate(attributes)
    ELSE LET fromIndex == find(attributes, fromId)
             toIndex == find(attributes, toId)
         IN  IF fromIndex = 0 \/ toIndex = 0 THEN NoUpdate(attributes)
             ELSE [updated |-> TRUE,
                   attributes |-> [i \in 1..Len(attributes) |->
                                      IF i = fromIndex THEN attributes[toIndex]
                                      ELSE IF i = toIndex THEN attributes[fromIndex]
                                      ELSE attributes[i]]]

reorderAttributes(attributes, fromId, toId) ==
    IF fromId = toId THEN NoUpdate(attributes)
    ELSE LET fromIndex == find(attributes, fromId)
             toIndex == find(attributes, toId)
         IN  IF fromIndex = 0 \/ toIndex = 0 THEN NoUpdate(attributes)
             ELSE [updated |-> TRUE,
                   attributes |-> spliceIn(spliceOut(attributes, fromIndex), toIndex,
                                           attributes[fromIndex])]

\* handleAddAttribute's list: [...obj.attributes, newAttr]
appendAttribute(attributes, newAttr) == Append(attributes, newAttr)

\* ------------------------------------------------------------------------
\* Calling the geometry primitives
\* ------------------------------------------------------------------------
ProbeXs == {0, 80, 480}
ProbeYs == {0, 50, 350}
ProbePoints == {PtI(x, y) : x \in ProbeXs, y \in ProbeYs}
ProbeLabels == {"", "rel", "appartient"}

InitGeom ==
    /\ entities = LayoutTriangle
    /\ associations = <<>>
    /\ canvas = "none"
    /\ drawn = <<>>
    /\ call = NoCall
    /\ ret = <<>>
    /\ Mounted

CallGetIntersection ==
    \E center \in ProbePoints, target \in ProbePoints, r \in 1..Len(entities) :
        /\ call' = [fn |-> "getIntersection", center |-> center, target |-> target,
                    rect |-> entities[r]]
        /\ ret' = getIntersection(center, target, entities[r])
        /\ UNCHANGED <<entities, associations, canvas, drawn, appVars, canvasVars>>

CallGetAssociationShapePoints ==
    \E n \in 0..MaxConn, x \in {0, 280}, y \in {0, 200}, label \in ProbeLabels :
        LET association == [Association(1, Template(Cycle(n, 0), FALSE, FALSE))
                                EXCEPT !.x = x, !.y = y, !.label = label]
        IN  /\ call' = [fn |-> "getAssociationShapePoints", association |-> association]
            /\ ret' = getAssociationShapePoints(association)
            /\ UNCHANGED <<entities, associations, canvas, drawn, appVars, canvasVars>>

\* Entities and attribute lists the pure functions are called with.
MaxAttrs == 4
ProbeNames == {"A", "Remontee mecanique"}
ProbeAttrNames == {"id", "altitude_maximale"}
ProbeAttrIds == <<"p1", "p2", "p3", "p4", "p5", "p6">>
AbsentAttrId == "p9"
ProbeAttrs(n, long, pk) ==
    [i \in 1..n |-> Attr(ProbeAttrIds[i],
                         IF i = long THEN "nomstat" ELSE "id",
                         i = pk)]
ProbeAttrLists ==
    {ProbeAttrs(n, long, pk) : n \in 0..(MaxAttrs - 1), long \in 0..1, pk \in 0..1}
ProbeEntities ==
    {Entity("1", name, 0, 0, width, height, attrs) :
        name \in ProbeNames, width \in {100, 160}, height \in {100},
        attrs \in ProbeAttrLists}

\* getEntityDimensions before and after one attribute is appended.
CallGetEntityDimensions ==
    \E entity \in ProbeEntities, name \in ProbeAttrNames, isPk \in BOOLEAN :
        LET newAttr == Attr(ProbeAttrIds[Len(entity.attributes) + 1], name, isPk)
            grown == [entity EXCEPT !.attributes = appendAttribute(entity.attributes, newAttr)]
        IN  /\ call' = [fn |-> "getEntityDimensions", entity |-> entity, grown |-> grown]
            /\ ret' = [before |-> getEntityDimensions(entity),
                       after |-> getEntityDimensions(grown)]
            /\ UNCHANGED <<entities, associations, canvas, drawn, appVars, canvasVars>>

ReorderLists ==
    {[i \in 1..n |-> Attr(ProbeAttrIds[i], IF i = same THEN "id" ELSE ProbeAttrIds[i], i = 1)]
        : n \in 0..MaxAttrs, same \in 2..3}
ReorderIds == {ProbeAttrIds[i] : i \in 1..MaxAttrs} \cup {AbsentAttrId}

CallReorderAttributes ==
    \E attributes \in ReorderLists, fromId \in ReorderIds, toId \in ReorderIds :
        /\ call' = [fn |-> "reorderAttributes", attributes |-> attributes,
                    fromId |-> fromId, toId |-> toId]
        /\ ret' = reorderAttributes(attributes, fromId, toId)
        /\ UNCHANGED <<entities, associations, canvas, drawn, appVars, canvasVars>>

NextGeom ==
    \/ CallGetIntersection
    \/ CallGetAssociationShapePoints
    \/ CallGetEntityDimensions
    \/ CallReorderAttributes

SpecGeom == InitGeom /\ [][NextGeom]_vars

\* ------------------------------------------------------------------------
\* The state container (App.tsx)
\* ------------------------------------------------------------------------
maxHistorySize == 50

\* The actions that save a snapshot run while fewer than MaxHistory snapshots
\* are stored, and randomUUID hands out at most MaxUuids ids.
MaxHistory == 2
MaxUuids == 3
UuidPool == <<"u1", "u2", "u3", "u4", "u5", "u6", "u7", "u8">>
\* The k-th id crypto.randomUUID() returns within the running handler.
randomUUID(k) == UuidPool[fresh + k]
CanDraw(n) == fresh + n <= MaxUuids
CanSave == Len(history) < MaxHistory

Some(v) == <<v>>

\* Names are written without their accents; the lengths are the source's.
initialEntities ==
    << Entity("1", "Skieur", 100, 100, 160, 100,
              <<Attr("a1", "nomski", TRUE), Attr("a2", "specialite", FALSE)>>),
       Entity("2", "Competition", 500, 300, 160, 100,
              <<Attr("b1", "refcomp", TRUE), Attr("b2", "datecomp", FALSE)>>),
       Entity("3", "Station", 600, 50, 160, 120,
              <<Attr("c1", "nomstat", TRUE), Attr("c2", "altstat", FALSE)>>) >>

Connection(id, entityId, cardinality) ==
    [id |-> id, entityId |-> entityId, cardinality |-> cardinality]

initialAssociations ==
    << [id |-> "rel1", label |-> "Participe", entityName |-> <<"Participation">>,
        x |-> 350, y |-> 250, entityBoxX |-> <<>>, entityBoxY |-> <<>>,
        attributes |-> <<Attr("attr_score", "score", FALSE)>>,
        connections |-> <<Connection("c1", "1", "1..*"), Connection("c2", "2", "0..*")>>,
        isLabelMovable |-> FALSE],
       [id |-> "rel2", label |-> "se deroule", entityName |-> <<>>,
        x |-> 680, y |-> 230, entityBoxX |-> <<>>, entityBoxY |-> <<>>,
        attributes |-> <<>>,
        connections |-> <<Connection("c3", "2", "*"), Connection("c4", "3", "1")>>,
        isLabelMovable |-> FALSE] >>

InitApp ==
    /\ entities = initialEntities
    /\ associations = initialAssociations
    /\ canvas = "none"
    /\ drawn = <<>>
    /\ call = NoCall
    /\ ret = <<>>
    /\ Mounted

\* Mutation of saveToHistory: the new history is stored whatever its length.
saveToHistory_untrimmed ==
    Append(history, [entities |-> entities, associations |-> associations])

\* The value saveToHistory gives `history`.
saveToHistory ==
    LET newHistory == Append(history, [entities |-> entities, associations |-> associations])
    IN  IF Len(newHistory) > maxHistorySize
        THEN SubSeq(newHistory, Len(newHistory) - maxHistorySize + 1, Len(newHistory))
        ELSE newHistory

RECURSIVE filterOut(_, _, _)
\* seq.filter(x => x[field] !== id), field being "id" or "entityId"
filterOut(seq, field, id) ==
    IF seq = <<>> THEN <<>>
    ELSE IF seq[1][field] = id THEN filterOut(Tail(seq), field, id)
    ELSE <<seq[1]>> \o filterOut(Tail(seq), field, id)

\* prev.map(x => x.id === updated.id ? updated : x)
replaceById(seq, updated) ==
    [i \in 1..Len(seq) |-> IF seq[i].id = updated.id THEN updated ELSE seq[i]]

\* Mutation of isConnected: only the first connection is looked at.
isConnected_firstOnly(assoc, id) ==
    Len(assoc.connections) > 0 /\ assoc.connections[1].entityId = id

\* assoc.connections.some(c => c.entityId === id)
isConnected(assoc, id) == \E c \in 1..Len(assoc.connections) : assoc.connections[c].entityId = id

RECURSIVE afterEntityDelete_keepsConnected(_, _)
\* Mutation of afterEntityDelete: an association connected to the deleted
\* entity is kept as it is.
afterEntityDelete_keepsConnected(prevAssocs, id) ==
    IF prevAssocs = <<>> THEN <<>>
    ELSE <<prevAssocs[1]>> \o afterEntityDelete_keepsConnected(Tail(prevAssocs), id)

RECURSIVE afterEntityDelete(_, _)
\* The reduce of handleDeleteEntityDirect over the associations.
afterEntityDelete(prevAssocs, id) ==
    IF prevAssocs = <<>> THEN <<>>
    ELSE LET assoc == prevAssocs[1]
             rest == afterEntityDelete(Tail(prevAssocs), id)
         IN  IF ~isConnected(assoc, id) THEN <<assoc>> \o rest
             ELSE IF Len(assoc.connections) > 2
                  THEN <<[assoc EXCEPT !.connections = filterOut(assoc.connections, "entityId", id)]>>
                       \o rest
                  ELSE rest

\* What a handler of the state container leaves alone besides the App state
\* it names: the canvas, the last call, and a FileReader in flight.
AppFrame == UNCHANGED <<canvas, drawn, call, ret, reading, canvasVars>>
ReaderFrame == UNCHANGED <<canvas, drawn, call, ret, canvasVars>>

\* Mutation of handleUndo: the oldest snapshot is restored.
handleUndo_oldest ==
    IF Len(history) = 0
    THEN UNCHANGED <<entities, associations, history, selectedId, selectedType, toast, fresh>>
    ELSE /\ entities' = history[1].entities
         /\ associations' = history[1].associations
         /\ history' = SubSeq(history, 1, Len(history) - 1)
         /\ selectedId' = <<>>
         /\ selectedType' = <<>>
         /\ toast' = Some([message |-> "Annule", type |-> "success"])
         /\ UNCHANGED fresh

handleUndo ==
    IF Len(history) = 0
    THEN UNCHANGED <<entities, associations, history, selectedId, selectedType, toast, fresh>>
    ELSE /\ entities' = history[Len(history)].entities
         /\ associations' = history[Len(history)].associations
         /\ history' = SubSeq(history, 1, Len(history) - 1)
         /\ selectedId' = <<>>
         /\ selectedType' = <<>>
         /\ toast' = Some([message |-> "Annule", type |-> "success"])
         /\ UNCHANGED fresh

\* setTimeout(() => setToast(null), 3000)
hideToast ==
    /\ toast # <<>>
    /\ toast' = <<>>
    /\ UNCHANGED <<entities, associations, history, selectedId, selectedType, fresh>>

\* 100 + Math.random() * 50
RandomOffsets == {40}
NewEntityNames == {"Piste"}

handleAddEntity ==
    \E name \in NewEntityNames, rx \in RandomOffsets, ry \in RandomOffsets :
        /\ CanDraw(1)
        /\ history' = saveToHistory
        /\ entities' = Append(entities,
                              Entity(randomUUID(1), name, 100 + rx, 100 + ry, 160, 80, <<>>))
        /\ selectedId' = Some(randomUUID(1))
        /\ selectedType' = Some("entity")
        /\ fresh' = fresh + 1
        /\ UNCHANGED <<associations, toast>>

handleCreateEntityAtPosition(x, y) ==
    /\ CanDraw(1)
    /\ history' = saveToHistory
    /\ entities' = Append(entities,
                          Entity(randomUUID(1), "Nouvelle entite", x, y, 160, 80, <<>>))
    /\ selectedId' = Some(randomUUID(1))
    /\ selectedType' = Some("entity")
    /\ fresh' = fresh + 1
    /\ UNCHANGED <<associations, toast>>

\* (a + b) / 2 for the even sums the coordinates of this model give
midOf(a, b) == (a + b) \div 2

handleQuickConnect(sourceId, sourceType, targetEntityId) ==
    /\ history' = saveToHistory
    /\ IF sourceType = "entity"
       THEN LET s == find(entities, sourceId)
                t == find(entities, targetEntityId)
            IN  IF s = 0 \/ t = 0
                THEN UNCHANGED <<associations, selectedId, selectedType, fresh>>
                ELSE /\ CanDraw(3)
                     /\ associations' =
                            Append(associations,
                                   [id |-> randomUUID(1), label |-> "", entityName |-> <<>>,
                                    x |-> midOf(entities[s].x + entities[s].width \div 2,
                                                entities[t].x + entities[t].width \div 2),
                                    y |-> midOf(entities[s].y + entities[s].height \div 2,
                                                entities[t].y + entities[t].height \div 2),
                                    entityBoxX |-> <<>>, entityBoxY |-> <<>>,
                                    attributes |-> <<>>,
                                    connections |->
                                        <<Connection(randomUUID(2), sourceId, "0..*"),
                                          Connection(randomUUID(3), targetEntityId, "0..*")>>,
                                    isLabelMovable |-> FALSE])
                     /\ selectedId' = Some(randomUUID(1))
                     /\ selectedType' = Some("association")
                     /\ fresh' = fresh + 3
       ELSE LET a == find(associations, sourceId)
            IN  IF a = 0 \/ isConnected(associations[a], targetEntityId)
                THEN UNCHANGED <<associations, selectedId, selectedType, fresh>>
                ELSE /\ CanDraw(1)
                     /\ associations' =
                            replaceById(associations,
                                        [associations[a] EXCEPT !.connections =
                                            Append(@, Connection(randomUUID(1), targetEntityId,
                                                                 "0..*"))])
                     /\ selectedId' = Some(sourceId)
                     /\ selectedType' = Some("association")
                     /\ fresh' = fresh + 1
    /\ UNCHANGED <<entities, toast>>

handleUpdateEntity(updated) ==
    /\ history' = saveToHistory
    /\ entities' = replaceById(entities, updated)
    /\ UNCHANGED <<associations, selectedId, selectedType, toast, fresh>>

handleDeleteEntityDirect(id) ==
    /\ history' = saveToHistory
    /\ entities' = filterOut(entities, "id", id)
    /\ associations' = afterEntityDelete(associations, id)
    /\ selectedId' = <<>>
    /\ selectedType' = <<>>
    /\ UNCHANGED <<toast, fresh>>

handleAddAssociation(assoc) ==
    /\ CanDraw(1)
    /\ history' = saveToHistory
    /\ associations' = Append(associations, [assoc EXCEPT !.id = randomUUID(1)])
    /\ selectedId' = Some(randomUUID(1))
    /\ selectedType' = Some("association")
    /\ fresh' = fresh + 1
    /\ UNCHANGED <<entities, toast>>

handleUpdateAssociation(updated) ==
    /\ history' = saveToHistory
    /\ associations' = replaceById(associations, updated)
    /\ UNCHANGED <<entities, selectedId, selectedType, toast, fresh>>

\* Mutation of handleDeleteAssociationDirect: the selection is left as it is.
handleDeleteAssociationDirect_keepsSelection(id) ==
    /\ history' = saveToHistory
    /\ associations' = filterOut(associations, "id", id)
    /\ UNCHANGED <<entities, selectedId, selectedType, toast, fresh>>

handleDeleteAssociationDirect(id) ==
    /\ history' = saveToHistory
    /\ associations' = filterOut(associations, "id", id)
    /\ selectedId' = <<>>
    /\ selectedType' = <<>>
    /\ UNCHANGED <<entities, toast, fresh>>

handleMove(id, x, y, type) ==
    /\ IF type = "entity"
       THEN /\ entities' = [i \in 1..Len(entities) |->
                               IF entities[i].id = id
                               THEN [entities[i] EXCEPT !.x = x, !.y = y] ELSE entities[i]]
            /\ UNCHANGED associations
       ELSE /\ associations' = [i \in 1..Len(associations) |->
                                   IF associations[i].id = id
                                   THEN [associations[i] EXCEPT !.x = x, !.y = y]
                                   ELSE associations[i]]
            /\ UNCHANGED entities
    /\ UNCHANGED appVars

handleMoveEntityBox(id, x, y) ==
    /\ associations' = [i \in 1..Len(associations) |->
                           IF associations[i].id = id
                           THEN [associations[i] EXCEPT !.entityBoxX = Some(x),
                                                        !.entityBoxY = Some(y)]
                           ELSE associations[i]]
    /\ UNCHANGED <<entities, appVars>>

\* id and type are <<>> for null.
handleSelect(id, type) ==
    /\ selectedId' = id
    /\ selectedType' = type
    /\ UNCHANGED <<entities, associations, history, toast, fresh>>

\* window.confirm answered with `confirmed`
handleClear(confirmed) ==
    /\ ~(Len(entities) = 0 /\ Len(associations) = 0)
    /\ IF confirmed
       THEN /\ entities' = <<>>
            /\ associations' = <<>>
            /\ selectedId' = <<>>
            /\ selectedType' = <<>>
       ELSE UNCHANGED <<entities, associations, selectedId, selectedType>>
    /\ UNCHANGED <<history, toast, fresh>>

\* JSON values: an array carries its items, every other value its type only;
\* an object carries the two properties handleImport reads.
JsonArray(items) == [type |-> "array", items |-> items]
JsonValue(type) == [type |-> type]
JsonObject(entitiesValue, associationsValue) ==
    [type |-> "object", entities |-> entitiesValue, associations |-> associationsValue]
\* A file: its text is well-formed JSON for `data`, or is not JSON.
JsonFile(data) == [wellFormed |-> TRUE, data |-> data]
NotJson == [wellFormed |-> FALSE]

\* JSON.parse(json), as try { ... } sees it
JSONparse(file) ==
    IF file.wellFormed THEN [threw |-> FALSE, data |-> file.data] ELSE [threw |-> TRUE]

\* data.entities / data.associations: a TypeError on null, undefined on a
\* value that has no such property
propertyOf(data, name) ==
    IF data.type = "null" THEN [threw |-> TRUE]
    ELSE IF data.type = "object" THEN [threw |-> FALSE, value |-> data[name]]
    ELSE [threw |-> FALSE, value |-> JsonValue("undefined")]

isArray(value) == value.type = "array"

\* Mutation of importAccepts: only data.entities is tested.
importAccepts_entitiesOnly(data) == isArray(propertyOf(data, "entities").value)

\* Array.isArray(data.entities) && Array.isArray(data.associations)
importAccepts(data) ==
    /\ isArray(propertyOf(data, "entities").value)
    /\ isArray(propertyOf(data, "associations").value)

\* What setEntities / setAssociations store for a property value.
stored(value) == IF isArray(value) THEN value.items ELSE value

\* handleImport up to reader.readAsText(file); window.confirm is answered
\* with `confirmed`.  One FileReader is in flight at a time.
handleImport(file, confirmed) ==
    /\ reading = <<>>
    /\ IF (Len(entities) > 0 \/ Len(associations) > 0) /\ ~confirmed
       THEN UNCHANGED reading
       ELSE reading' = Some(file)
    /\ UNCHANGED <<entities, associations, history, selectedId, selectedType, toast, fresh>>

\* reader.onload
onload ==
    /\ reading # <<>>
    /\ reading' = <<>>
    /\ LET parsed == JSONparse(reading[1])
       IN  IF parsed.threw \/ propertyOf(parsed.data, "entities").threw
           THEN /\ toast' = Some([message |-> "Erreur lors de la lecture du fichier.",
                                  type |-> "error"])
                /\ UNCHANGED <<entities, associations, selectedId, selectedType>>
           ELSE IF importAccepts(parsed.data)
           THEN /\ entities' = stored(propertyOf(parsed.data, "entities").value)
                /\ associations' = stored(propertyOf(parsed.data, "associations").value)
                /\ selectedId' = <<>>
                /\ selectedType' = <<>>
                /\ toast' = Some([message |-> "Import reussi !", type |-> "success"])
           ELSE /\ toast' = Some([message |-> "Format de fichier invalide.",
                                  type |-> "error"])
                /\ UNCHANGED <<entities, associations, selectedId, selectedType>>
    /\ UNCHANGED <<history, fresh>>

\* The keydown listener: Delete with a selection, Ctrl+Z.
handleKeyDown(key) ==
    IF key = "Delete"
    THEN /\ selectedId # <<>> /\ selectedType # <<>>
         /\ IF selectedType[1] = "entity"
            THEN handleDeleteEntityDirect(selectedId[1])
            ELSE handleDeleteAssociationDirect(selectedId[1])
    ELSE handleUndo

\* ------------------------------------------------------------------------
\* The edit panel (Sidebar.tsx) of the selected item
\* ------------------------------------------------------------------------
HasSelected(type, seq) ==
    /\ selectedId # <<>> /\ selectedType = Some(type)
    /\ find(seq, selectedId[1]) # 0
selectedEntity == entities[find(entities, selectedId[1])]
selectedAssoc == associations[find(associations, selectedId[1])]

renameEntity ==
    \E name \in NewEntityNames :
        /\ HasSelected("entity", entities)
        /\ handleUpdateEntity([selectedEntity EXCEPT !.name = name])

toggleLabelMovable ==
    /\ HasSelected("association", associations)
    /\ handleUpdateAssociation([selectedAssoc EXCEPT !.isLabelMovable = ~@])

addConnection ==
    /\ HasSelected("association", associations)
    /\ Len(entities) # 0
    /\ CanDraw(1)
    /\ handleUpdateAssociation(
           [selectedAssoc EXCEPT !.connections =
               Append(@, Connection(randomUUID(1), entities[1].id, "0..n"))])

\* The <select> offers the ids of `entities`.
updateConnection ==
    \E c \in 1..MaxConn, e \in 1..Len(entities) :
        /\ HasSelected("association", associations)
        /\ c <= Len(selectedAssoc.connections)
        /\ handleUpdateAssociation(
               [selectedAssoc EXCEPT !.connections[c].entityId = entities[e].id])

removeConnection ==
    \E c \in 1..MaxConn :
        /\ HasSelected("association", associations)
        /\ c <= Len(selectedAssoc.connections)
        /\ handleUpdateAssociation(
               [selectedAssoc EXCEPT !.connections =
                   filterOut(@, "id", selectedAssoc.connections[c].id)])

handleCreateAssociation ==
    handleAddAssociation([id |-> "", label |-> "rel", entityName |-> <<>>,
                          x |-> 300, y |-> 300, entityBoxX |-> <<>>, entityBoxY |-> <<>>,
                          attributes |-> <<>>, connections |-> <<>>,
                          isLabelMovable |-> FALSE])

\* ------------------------------------------------------------------------
\* Operating the state container from the initial diagram
\* ------------------------------------------------------------------------
\* Ids an event can carry: the ids in use.
EntityIdsNow == {entities[i].id : i \in 1..Len(entities)}
AssocIdsNow == {associations[i].id : i \in 1..Len(associations)}
DropPoints == {[x |-> 300, y |-> 200]}
\* What is dragged.
Dragged == {[id |-> "2", type |-> "entity"]}
\* What is clicked.
Clicked == {[id |-> "2", type |-> "entity"], [id |-> "rel2", type |-> "association"]}

\* The connection gesture starts on the item the mouse went down on, which
\* that mouse-down selected (an association only if it has two connections
\* or more), and ends on an entity other than the source.
QuickConnect ==
    \E t \in EntityIdsNow :
        /\ selectedId # <<>> /\ selectedType # <<>>
        /\ t # selectedId[1]
        /\ HasSelected("association", associations) => Len(selectedAssoc.connections) >= 2
        /\ CanSave
        /\ handleQuickConnect(selectedId[1], selectedType[1], t)
        /\ AppFrame

CreateEntityAtPosition ==
    \E p \in DropPoints : CanSave /\ handleCreateEntityAtPosition(p.x, p.y) /\ AppFrame

Move == \E p \in DropPoints, d \in Dragged : handleMove(d.id, p.x, p.y, d.type) /\ AppFrame

Select ==
    \/ \E c \in Clicked :
          /\ c.id \in EntityIdsNow \cup AssocIdsNow
          /\ handleSelect(Some(c.id), Some(c.type))
          /\ AppFrame
    \/ handleSelect(<<>>, <<>>) /\ AppFrame

Clear == \E confirmed \in BOOLEAN : handleClear(confirmed) /\ AppFrame

KeyDown ==
    \E key \in {"Delete", "z"} :
        /\ key = "Delete" => CanSave
        /\ handleKeyDown(key)
        /\ AppFrame

ToastTimeout == hideToast /\ AppFrame

\* The forms and buttons of the Sidebar.
AddEntity == CanSave /\ handleAddEntity /\ AppFrame
RenameEntity == CanSave /\ renameEntity /\ AppFrame
ToggleLabelMovable == CanSave /\ toggleLabelMovable /\ AppFrame
AddConnection == CanSave /\ addConnection /\ AppFrame
UpdateConnection == CanSave /\ updateConnection /\ AppFrame
RemoveConnection == CanSave /\ removeConnection /\ AppFrame
CreateAssociation == CanSave /\ handleCreateAssociation /\ AppFrame

NextApp ==
    \/ AddEntity
    \/ CreateEntityAtPosition
    \/ QuickConnect
    \/ RenameEntity
    \/ ToggleLabelMovable
    \/ AddConnection
    \/ UpdateConnection
    \/ RemoveConnection
    \/ CreateAssociation
    \/ Move
    \/ Select
    \/ Clear
    \/ KeyDown
    \/ ToastTimeout

SpecApp == InitApp /\ [][NextApp]_vars

\* ------------------------------------------------------------------------
\* A long editing session: the history fills up
\*
\* Select an item, lock or unlock the label of the selected association,
\* press Delete or Ctrl+Z, as often as one likes.
\* ------------------------------------------------------------------------
EditLabelLock == toggleLabelMovable /\ AppFrame

KeyPress == \E key \in {"Delete", "z"} : handleKeyDown(key) /\ AppFrame

NextHistory ==
    \/ Select
    \/ EditLabelLock
    \/ KeyPress
    \/ ToastTimeout

SpecHistory == InitApp /\ [][NextHistory]_vars

\* ------------------------------------------------------------------------
\* Importing a file into the diagram
\* ------------------------------------------------------------------------
ImportedEntities == <<Entity("7", "Piste", 40, 40, 160, 80, <<>>)>>
ImportedAssociations ==
    << [id |-> "rel7", label |-> "dessert", entityName |-> <<>>,
        x |-> 300, y |-> 300, entityBoxX |-> <<>>, entityBoxY |-> <<>>,
        attributes |-> <<>>,
        connections |-> <<Connection("k1", "7", "1"), Connection("k2", "7", "*")>>,
        isLabelMovable |-> FALSE] >>

ImportFiles ==
    { NotJson,
      JsonFile(JsonValue("null")),
      JsonFile(JsonValue("number")),
      JsonFile(JsonObject(JsonValue("undefined"), JsonValue("undefined"))),
      JsonFile(JsonObject(JsonArray(ImportedEntities), JsonValue("undefined"))),
      JsonFile(JsonObject(JsonValue("undefined"), JsonArray(ImportedAssociations))),
      JsonFile(JsonObject(JsonArray(ImportedEntities), JsonValue("object"))),
      JsonFile(JsonObject(JsonValue("string"), JsonArray(<<>>))),
      JsonFile(JsonObject(JsonArray(<<>>), JsonArray(<<>>))),
      JsonFile(JsonObject(JsonArray(ImportedEntities), JsonArray(<<>>))),
      JsonFile(JsonObject(JsonArray(ImportedEntities), JsonArray(ImportedAssociations))) }

Import ==
    \E file \in ImportFiles, confirmed \in BOOLEAN : handleImport(file, confirmed) /\ ReaderFrame

FileLoaded == onload /\ ReaderFrame

NextImport ==
    \/ Import
    \/ FileLoaded
    \/ Select
    \/ RenameEntity
    \/ Clear
    \/ KeyDown
    \/ ToastTimeout

SpecImport == InitApp /\ [][NextImport]_vars

\* Adding, connecting, renaming, deleting, selecting, clearing, importing and
\* undoing, in any order.
NextSession ==
    \/ AddEntity
    \/ QuickConnect
    \/ RenameEntity
    \/ KeyDown
    \/ Select
    \/ Clear
    \/ Import
    \/ FileLoaded

SpecSession == InitApp /\ [][NextSession]_vars

\* ------------------------------------------------------------------------
\* The canvas's pointer handlers (DiagramCanvas)
\*
\* A pointer event e carries the pointer position relative to the svg
\* (e.clientX - rect.left, e.clientY - rect.top), as rationals, and the
\* modifier keys.  lastPos and mousePos are written by the handlers and read
\* by none of them; they are not part of the state here.
\* ------------------------------------------------------------------------
snap == 10

\* Math.round of a rational: the nearest integer, halves upwards
MathRound(q) == (2 * q.n + q.d) \div (2 * q.d)

\* Mutation of snapped: the rounded quotient is not scaled back.
snapped_unscaled(q) == MathRound(QDiv(q, QI(snap)))

\* Math.round(x / snap) * snap
snapped(q) == MathRound(QDiv(q, QI(snap))) * snap

\* selectedItems.has(id), for the selection the App holds
selectedItemsHas(id) == selectedId = Some(id)

noAppChange ==
    UNCHANGED <<entities, associations, history, selectedId, selectedType, toast, fresh>>

\* What a pointer handler of the canvas leaves alone; `call` names the window
\* key listener that acted last, and no pointer handler is one.
CanvasFrame == call' = NoCall /\ UNCHANGED <<canvas, drawn, ret, reading>>

\* mouseX >= entity.x && mouseX <= entity.x + width && ... of handleMouseUp
pointerInEntity(e, entity) ==
    LET dims == getEntityDimensions(entity)
    IN  /\ QLeq(QI(entity.x), e.x) /\ QLeq(e.x, QI(entity.x + dims.width))
        /\ QLeq(QI(entity.y), e.y) /\ QLeq(e.y, QI(entity.y + dims.height))

\* entities.find(entity => pointer inside entity): its index, 0 for undefined
RECURSIVE entityUnder(_, _)
entityUnder(e, i) ==
    IF i > Len(entities) THEN 0
    ELSE IF pointerInEntity(e, entities[i]) THEN i
    ELSE entityUnder(e, i + 1)

\* The bounding box handleMouseUp gives an association.
pointerInAssociation(e, assoc) ==
    LET assocHalfWidth == IF Len(assoc.connections) > 2 THEN 40 ELSE 30
        assocHalfHeight == IF Len(assoc.connections) > 2 THEN 30 ELSE 20
    IN  /\ QLeq(QI(assoc.x - assocHalfWidth), e.x) /\ QLeq(e.x, QI(assoc.x + assocHalfWidth))
        /\ QLeq(QI(assoc.y - assocHalfHeight), e.y) /\ QLeq(e.y, QI(assoc.y + assocHalfHeight))

handleMouseDown(e, id, type) ==
    LET obj == IF type = "entity" THEN entities[find(entities, id)]
               ELSE associations[find(associations, id)]
    IN  /\ IF e.shiftKey /\ (type = "entity" \/ Len(obj.connections) >= 2)
           THEN /\ connectionMode' = Some([sourceId |-> id, sourceType |-> type])
                /\ handleSelect(Some(id), Some(type))
                /\ UNCHANGED <<dragging, dragOffset, marquee>>
           ELSE IF e.ctrlKey
           THEN /\ handleSelect(Some(id), Some(type))
                /\ UNCHANGED canvasVars
           ELSE /\ IF selectedItemsHas(id) THEN noAppChange
                   ELSE handleSelect(Some(id), Some(type))
                /\ IF type = "association" /\ Len(obj.connections) = 2 /\ ~obj.isLabelMovable
                   THEN UNCHANGED canvasVars
                   ELSE /\ dragOffset' = [x |-> QSub(e.x, QI(obj.x)), y |-> QSub(e.y, QI(obj.y))]
                        /\ dragging' = Some([id |-> id, type |-> type,
                                             startX |-> obj.x, startY |-> obj.y])
                        /\ UNCHANGED <<connectionMode, marquee>>
        /\ CanvasFrame

\* The onMouseDown of the <g> of a self-referencing association.
selfLoopMouseDown(e, assoc) ==
    /\ IF e.shiftKey
       THEN /\ connectionMode' = Some([sourceId |-> assoc.id, sourceType |-> "association"])
            /\ handleSelect(Some(assoc.id), Some("association"))
            /\ UNCHANGED <<dragging, dragOffset, marquee>>
       ELSE IF e.ctrlKey
       THEN /\ handleSelect(Some(assoc.id), Some("association"))
            /\ UNCHANGED canvasVars
       ELSE /\ IF selectedItemsHas(assoc.id) THEN noAppChange
               ELSE handleSelect(Some(assoc.id), Some("association"))
            /\ IF assoc.isLabelMovable
               THEN /\ dragOffset' = [x |-> QSub(e.x, QI(assoc.x)), y |-> QSub(e.y, QI(assoc.y))]
                    /\ dragging' = Some([id |-> assoc.id, type |-> "association",
                                         startX |-> assoc.x, startY |-> assoc.y])
                    /\ UNCHANGED <<connectionMode, marquee>>
               ELSE UNCHANGED canvasVars
    /\ CanvasFrame

\* Mutation of lockedLineMouseDown: a plain press starts a drag, as on a node.
lockedLineMouseDown_drags(e, assoc) ==
    /\ IF e.shiftKey
       THEN /\ connectionMode' = Some([sourceId |-> assoc.id, sourceType |-> "association"])
            /\ handleSelect(Some(assoc.id), Some("association"))
            /\ UNCHANGED <<dragging, dragOffset, marquee>>
       ELSE IF e.ctrlKey
       THEN /\ handleSelect(Some(assoc.id), Some("association"))
            /\ UNCHANGED canvasVars
       ELSE /\ IF selectedItemsHas(assoc.id) THEN noAppChange
               ELSE handleSelect(Some(assoc.id), Some("association"))
            /\ dragOffset' = [x |-> QSub(e.x, QI(assoc.x)), y |-> QSub(e.y, QI(assoc.y))]
            /\ dragging' = Some([id |-> assoc.id, type |-> "association",
                                 startX |-> assoc.x, startY |-> assoc.y])
            /\ UNCHANGED <<connectionMode, marquee>>
    /\ CanvasFrame

\* The onMouseDown of the <g> of a locked binary association's line.
lockedLineMouseDown(e, assoc) ==
    /\ IF e.shiftKey
       THEN /\ connectionMode' = Some([sourceId |-> assoc.id, sourceType |-> "association"])
            /\ handleSelect(Some(assoc.id), Some("association"))
            /\ UNCHANGED <<dragging, dragOffset, marquee>>
       ELSE IF e.ctrlKey
       THEN /\ handleSelect(Some(assoc.id), Some("association"))
            /\ UNCHANGED canvasVars
       ELSE /\ IF selectedItemsHas(assoc.id) THEN noAppChange
               ELSE handleSelect(Some(assoc.id), Some("association"))
            /\ UNCHANGED canvasVars
    /\ CanvasFrame

\* What the canvas draws an association as, and so which onMouseDown a press
\* on it reaches: renderConnection's branches, then the AssociationNode filter.
shownAs(assoc) ==
    LET i1 == find(entities, assoc.connections[1].entityId)
        i2 == find(entities, assoc.connections[2].entityId)
    IN  IF Len(assoc.connections) = 2 /\ i1 # 0 /\ i2 # 0 /\ entities[i1].id = entities[i2].id
        THEN "selfLoop"
        ELSE IF isBinaryLocked(assoc)
        THEN IF i1 # 0 /\ i2 # 0 THEN "lockedLine" ELSE "nothing"
        ELSE IF nodeFilter(assoc) THEN "node"
        ELSE "nothing"

\* The position handleEntityBoxMouseDown takes the attribute box to be at.
assumedBox(assoc) ==
    LET isBinary == Len(assoc.connections) <= 2
        defaultBoxX == assoc.x
        defaultBoxY == assoc.y + (IF isBinary THEN 30 ELSE 60)
    IN  [x |-> IF assoc.entityBoxX # <<>> THEN assoc.entityBoxX[1] ELSE defaultBoxX,
         y |-> IF assoc.entityBoxY # <<>> THEN assoc.entityBoxY[1] ELSE defaultBoxY]

handleEntityBoxMouseDown(e, id) ==
    LET assoc == associations[find(associations, id)]
    IN  /\ IF e.ctrlKey
           THEN /\ handleSelect(Some(id), Some("association"))
                /\ UNCHANGED canvasVars
           ELSE /\ IF selectedItemsHas(id) THEN noAppChange
                   ELSE handleSelect(Some(id), Some("association"))
                /\ dragOffset' = [x |-> QSub(e.x, QI(assumedBox(assoc).x)),
                              y |-> QSub(e.y, QI(assumedBox(assoc).y))]
                /\ dragging' = Some([id |-> id, type |-> "entityBox",
                                     startX |-> assumedBox(assoc).x,
                                     startY |-> assumedBox(assoc).y])
                /\ UNCHANGED <<connectionMode, marquee>>
        /\ CanvasFrame

handleMouseMove(e) ==
    /\ IF marquee # <<>>
       THEN /\ marquee' = Some([marquee[1] EXCEPT !.endX = e.x, !.endY = e.y])
            /\ noAppChange
            /\ UNCHANGED <<dragging, dragOffset, connectionMode>>
       ELSE /\ dragging # <<>>
            /\ LET snappedX == snapped(QSub(e.x, dragOffset.x))
                   snappedY == snapped(QSub(e.y, dragOffset.y))
               IN  IF dragging[1].type = "entityBox"
                   THEN handleMoveEntityBox(dragging[1].id, snappedX, snappedY)
                   ELSE handleMove(dragging[1].id, snappedX, snappedY, dragging[1].type)
            /\ UNCHANGED canvasVars
    /\ CanvasFrame

handleMouseUp(e) ==
    /\ IF marquee # <<>>
       THEN LET minX == QMin(marquee[1].startX, marquee[1].endX)
                maxX == QMax(marquee[1].startX, marquee[1].endX)
                minY == QMin(marquee[1].startY, marquee[1].endY)
                maxY == QMax(marquee[1].startY, marquee[1].endY)
            IN  /\ IF QLess(QI(5), QSub(maxX, minX)) \/ QLess(QI(5), QSub(maxY, minY))
                   THEN handleSelect(<<>>, <<>>)
                   ELSE noAppChange
                /\ marquee' = <<>>
                /\ UNCHANGED <<dragging, dragOffset, connectionMode>>
       ELSE /\ IF connectionMode # <<>>
               THEN LET targetEntity == entityUnder(e, 1)
                    IN  /\ IF targetEntity # 0
                              /\ entities[targetEntity].id # connectionMode[1].sourceId
                           THEN handleQuickConnect(connectionMode[1].sourceId,
                                                   connectionMode[1].sourceType,
                                                   entities[targetEntity].id)
                           ELSE noAppChange
                        /\ connectionMode' = <<>>
               ELSE noAppChange /\ UNCHANGED connectionMode
            /\ dragging' = <<>>
            /\ UNCHANGED <<dragOffset, marquee>>
    /\ CanvasFrame

handleCanvasMouseDown(e) ==
    /\ marquee' = Some([startX |-> e.x, startY |-> e.y, endX |-> e.x, endY |-> e.y])
    /\ noAppChange
    /\ UNCHANGED <<dragging, dragOffset, connectionMode>>
    /\ CanvasFrame

\* handleCanvasClick is bound to no event of the svg and never runs.

handleCanvasDoubleClick(e) ==
    /\ handleCreateEntityAtPosition(snapped(e.x), snapped(e.y))
    /\ UNCHANGED canvasVars
    /\ CanvasFrame

\* The window listeners: Escape pressed, Control or Meta released.
KeyListenerFrame ==
    call' = [fn |-> "cancelConnectionMode"] /\ UNCHANGED <<canvas, drawn, ret, reading>>

\* Mutation of cancelConnectionMode: the listener ends the drag instead.
cancelConnectionMode_endsDrag ==
    /\ connectionMode # <<>>
    /\ dragging' = <<>>
    /\ noAppChange
    /\ UNCHANGED <<connectionMode, dragOffset, marquee>>
    /\ KeyListenerFrame

cancelConnectionMode ==
    /\ connectionMode # <<>>
    /\ connectionMode' = <<>>
    /\ noAppChange
    /\ UNCHANGED <<dragging, dragOffset, marquee>>
    /\ KeyListenerFrame

\* ------------------------------------------------------------------------
\* Pointer gestures on the initial diagram
\* ------------------------------------------------------------------------
\* Where the button goes down on an item: inside entity 1 (off the grid),
\* on association rel2.
PointerPoints == { Pt(Q(275, 2), QI(128)), Pt(QI(688), Q(473, 2)) }
Modifiers == {[shiftKey |-> FALSE, ctrlKey |-> FALSE], [shiftKey |-> TRUE, ctrlKey |-> FALSE],
              [shiftKey |-> FALSE, ctrlKey |-> TRUE]}
PointerEvents ==
    {[x |-> p.x, y |-> p.y, shiftKey |-> m.shiftKey, ctrlKey |-> m.ctrlKey]
        : p \in PointerPoints, m \in Modifiers}

\* Where the button goes down on the attribute box of rel1; the handler
\* reads the Control key only.
BoxPoints == { Pt(Q(743, 2), QI(296)) }
BoxEvents ==
    {[x |-> p.x, y |-> p.y, shiftKey |-> FALSE, ctrlKey |-> c] : p \in BoxPoints, c \in BOOLEAN}

\* Where the pointer goes with the button held: inside entity 2, on the
\* empty canvas off the grid.  Where the empty canvas is pressed and
\* double-clicked.  These handlers read no modifier key.
TravelPoints == { Pt(QI(523), QI(344)), Pt(Q(1233, 4), QI(407)) }
CanvasPoints == { Pt(QI(42), QI(407)) }
Plain(points) ==
    {[x |-> p.x, y |-> p.y, shiftKey |-> FALSE, ctrlKey |-> FALSE] : p \in points}

MouseDownOnEntity ==
    \E e \in PointerEvents, i \in 1..Len(entities) :
        /\ pointerInEntity(e, entities[i])
        /\ handleMouseDown(e, entities[i].id, "entity")

MouseDownOnAssociation ==
    \E e \in PointerEvents, i \in 1..Len(associations) :
        /\ pointerInAssociation(e, associations[i])
        /\ CASE shownAs(associations[i]) = "selfLoop" -> selfLoopMouseDown(e, associations[i])
             [] shownAs(associations[i]) = "lockedLine" ->
                    lockedLineMouseDown(e, associations[i])
             [] shownAs(associations[i]) = "node" ->
                    handleMouseDown(e, associations[i].id, "association")
             [] OTHER -> FALSE

\* A box that was moved is where entityBoxX/Y say; one that was not is where
\* the renderer put it, which the pointer is taken to be on.
MouseDownOnEntityBox ==
    \E e \in BoxEvents, i \in 1..Len(associations) :
        /\ Len(associations[i].attributes) > 0
        /\ associations[i].entityBoxX # <<>> =>
               LET box == boxDimensions(associations[i])
               IN  /\ QLeq(QI(associations[i].entityBoxX[1]), e.x)
                   /\ QLeq(e.x, QI(associations[i].entityBoxX[1] + box.width))
                   /\ QLeq(QI(associations[i].entityBoxY[1]), e.y)
                   /\ QLeq(e.y, QI(associations[i].entityBoxY[1] + box.height))
        /\ handleEntityBoxMouseDown(e, associations[i].id)

MouseDownOnCanvas ==
    \E e \in Plain(CanvasPoints) :
        /\ entityUnder(e, 1) = 0
        /\ handleCanvasMouseDown(e)

MouseMove == \E e \in Plain(TravelPoints) : handleMouseMove(e)

\* A release that ends a connection gesture may save a snapshot.
MouseUp ==
    \E e \in Plain(TravelPoints) :
        /\ (marquee = <<>> /\ connectionMode # <<>>) => CanSave
        /\ handleMouseUp(e)

CanvasDoubleClick ==
    \E e \in Plain(CanvasPoints) :
        /\ dragging = <<>> /\ connectionMode = <<>> /\ marquee = <<>>
        /\ entityUnder(e, 1) = 0
        /\ CanSave
        /\ handleCanvasDoubleClick(e)

KeyCancel == cancelConnectionMode

NextCanvas ==
    \/ MouseDownOnEntity
    \/ MouseDownOnAssociation
    \/ MouseDownOnEntityBox
    \/ MouseDownOnCanvas
    \/ KeyCancel
    \/ MouseMove
    \/ MouseUp
    \/ CanvasDoubleClick

SpecCanvas == InitApp /\ [][NextCanvas]_vars

\* ------------------------------------------------------------------------
\* The attribute box through moves
\*
\* A drag changes entities or associations, the props of the canvas, which
\* React then renders again: canvas = "none" says that the last render is out
\* of date, and nothing can be grabbed before the next one.
\* ------------------------------------------------------------------------
\* One association: unary, binary on two entities, self-reference, binary
\* with a missing entity (as an imported file can hold), ternary; locked or
\* movable, with or without an attribute.
BoxTargetLists == {<<"1">>, <<"1", "2">>, <<"1", "1">>, <<"1", DanglingId>>, <<"1", "2", "3">>}
BoxDiagrams ==
    {<<Association(1, Template(t, m, w))>> : t \in BoxTargetLists, m \in BOOLEAN, w \in BOOLEAN}

InitBox ==
    /\ entities = LayoutDiagonal
    /\ associations \in BoxDiagrams
    /\ canvas = "none"
    /\ drawn = <<>>
    /\ call = NoCall
    /\ ret = <<>>
    /\ Mounted

\* The props changed: a render is due.
Invalidate ==
    /\ canvas # "none"
    /\ canvas' = "none"
    /\ UNCHANGED <<drawn, call, ret, reading, canvasVars>>

\* Snapped positions a drag ends on: of the attribute box, of the association
\* node, of an entity.
BoxDrops == {[x |-> 300, y |-> 200], [x |-> 10, y |-> 410]}
NodeDrops == {[x |-> 480, y |-> 50]}
EntityDrops(id) == IF id = "1" THEN {[x |-> 0, y |-> 300]} ELSE {}

boxDrawn(assocId) ==
    \E k \in 1..Len(drawn) : drawn[k].assocId = assocId /\ drawn[k].attributeBox # <<>>

nodeDrawn(assocId) ==
    \E k \in 1..Len(drawn) : drawn[k].assocId = assocId /\ drawn[k].kind = "node"

\* A drag of a drawn attribute box: onMoveEntityBox.
DragEntityBox ==
    \E p \in BoxDrops, i \in 1..Len(associations) :
        /\ boxDrawn(associations[i].id)
        /\ handleMoveEntityBox(associations[i].id, p.x, p.y)
        /\ Invalidate

\* A drag of a drawn association node: onMove.
DragAssociation ==
    \E p \in NodeDrops, i \in 1..Len(associations) :
        /\ nodeDrawn(associations[i].id)
        /\ handleMove(associations[i].id, p.x, p.y, "association")
        /\ Invalidate

\* A drag of an entity: onMove.
DragEntity ==
    \E i \in 1..Len(entities) : \E p \in EntityDrops(entities[i].id) :
        /\ handleMove(entities[i].id, p.x, p.y, "entity")
        /\ Invalidate

NextBox == Render \/ RenderLegacy \/ DragEntityBox \/ DragAssociation \/ DragEntity

SpecBox == InitBox /\ [][NextBox]_vars

\* ------------------------------------------------------------------------
\* Grabbing the attribute box
\*
\* One association with an attribute, drawn as a locked line, a self-loop or
\* a node; its box is at the mode's default or at a stored position, which a
\* file can give off the grid.  The box is pressed where it is drawn, the
\* pointer does not travel before the first mouse-move, and the button is
\* released.
\* ------------------------------------------------------------------------
GrabTargetLists == {<<"1", "2">>, <<"1", "1">>, <<"1", "2", "3">>}
StoredBoxes == {[x |-> <<>>, y |-> <<>>], [x |-> <<303>>, y |-> <<207>>]}
GrabDiagrams ==
    {<<[Association(1, Template(t, m, TRUE)) EXCEPT !.entityBoxX = b.x, !.entityBoxY = b.y]>>
        : t \in GrabTargetLists, m \in BOOLEAN, b \in StoredBoxes}

InitGrab ==
    /\ entities = LayoutDiagonal
    /\ associations \in GrabDiagrams
    /\ canvas = "none"
    /\ drawn = <<>>
    /\ call = NoCall
    /\ ret = <<>>
    /\ Mounted

\* The drawn boxes, as (association index, element index) pairs.
DrawnBoxes ==
    {p \in (1..Len(associations)) \X (1..Len(drawn)) :
        /\ drawn[p[2]].assocId = associations[p[1]].id
        /\ drawn[p[2]].attributeBox # <<>>}

\* The last render shows a box elsewhere than its stored position: the
\* props have changed since.
StaleBox ==
    \E p \in DrawnBoxes :
        /\ associations[p[1]].entityBoxX # <<>>
        /\ \/ drawn[p[2]].attributeBox[1].x # QI(associations[p[1]].entityBoxX[1])
           \/ drawn[p[2]].attributeBox[1].y # QI(associations[p[1]].entityBoxY[1])

\* Where the button goes down in a drawn box: a little inside its top-left
\* corner.
GrabPoint(box) == Pt(QAdd(box.x, Q(15, 2)), QAdd(box.y, QI(5)))

GrabEntityBox ==
    \E p \in DrawnBoxes, ctrl \in BOOLEAN :
        /\ canvas # "none"
        /\ ~StaleBox
        /\ dragging = <<>>
        /\ handleEntityBoxMouseDown(
               [x |-> GrabPoint(drawn[p[2]].attributeBox[1]).x,
                y |-> GrabPoint(drawn[p[2]].attributeBox[1]).y,
                shiftKey |-> FALSE, ctrlKey |-> ctrl],
               associations[p[1]].id)

\* Where the pointer was when the button went down: offset = mouse - box.
PressPoint ==
    [x |-> QAdd(dragOffset.x, QI(dragging[1].startX)),
     y |-> QAdd(dragOffset.y, QI(dragging[1].startY)),
     shiftKey |-> FALSE, ctrlKey |-> FALSE]

\* The first mouse-move, the pointer being where it went down.
HoldStill == dragging # <<>> /\ handleMouseMove(PressPoint)

Release == dragging # <<>> /\ handleMouseUp(PressPoint)

\* React renders again after the props changed.
PropsChanged ==
    /\ StaleBox
    /\ dragging = <<>>
    /\ Invalidate
    /\ UNCHANGED <<entities, associations, history, selectedId, selectedType, toast, fresh>>

NextGrab ==
    \/ Render
    \/ RenderLegacy
    \/ GrabEntityBox
    \/ HoldStill
    \/ Release
    \/ PropsChanged

SpecGrab == InitGrab /\ [][NextGrab]_vars

\* ------------------------------------------------------------------------
\* Properties
\* ------------------------------------------------------------------------
Painted == canvas # "none"
Threw == drawn = Throw

AssocAt(k) == associations[k]
AssocIdxs == 1..Len(associations)
Live(entityId) == find(entities, entityId) # 0
AllLive(a) == \A c \in 1..Len(a.connections) : Live(a.connections[c].entityId)
LiveConns(a) == {c \in 1..Len(a.connections) : Live(a.connections[c].entityId)}
SameEntityId(a) ==
    Len(a.connections) = 2 /\ a.connections[1].entityId = a.connections[2].entityId
\* binary, locked, between two distinct live entities
LockedPair(a) ==
    /\ Len(a.connections) = 2 /\ ~a.isLabelMovable /\ ~SameEntityId(a) /\ AllLive(a)
SamePair(a, b) ==
    {a.connections[1].entityId, a.connections[2].entityId}
        = {b.connections[1].entityId, b.connections[2].entityId}

ElementsFor(id, kind) ==
    {i \in 1..Len(drawn) : drawn[i].assocId = id /\ drawn[i].kind = kind}
Count(id, kind) == Cardinality(ElementsFor(id, kind))
TheElement(id, kind) == drawn[CHOOSE i \in ElementsFor(id, kind) : TRUE]
FromConnection(id, connIndex) ==
    {i \in 1..Len(drawn) : drawn[i].assocId = id /\ drawn[i].connIndex = connIndex}

\* p lies on the border of the entity's rendered rectangle.
OnBorder(p, entity) ==
    LET dims == getEntityDimensions(entity)
        c == getCenter(entity)
        ax == QAbs(QSub(p.x, c.x))
        ay == QAbs(QSub(p.y, c.y))
    IN  \/ ax = Q(dims.width, 2) /\ QLeq(ay, Q(dims.height, 2))
        \/ ay = Q(dims.height, 2) /\ QLeq(ax, Q(dims.width, 2))

\* C1: a binary association whose two connections have the same entityId is
\* never drawn as a locked-binary line, and is drawn as a self-referencing
\* loop whenever that entity exists, whatever isLabelMovable is.
C1_SelfRefAlwaysLoop ==
    Painted =>
        \A k \in AssocIdxs :
            SameEntityId(AssocAt(k)) =>
                /\ Count(AssocAt(k).id, "binary") = 0
                /\ AllLive(AssocAt(k)) => Count(AssocAt(k).id, "selfRef") = 1

\* C2: an association whose connections all resolve is drawn with exactly one
\* label-bearing shape (loop, locked line or node), and spokes only come
\* with a node.
C2_ExactlyOneMode ==
    Painted =>
        \A k \in AssocIdxs :
            AllLive(AssocAt(k)) =>
                /\ Count(AssocAt(k).id, "selfRef") + Count(AssocAt(k).id, "binary")
                       + Count(AssocAt(k).id, "node") = 1
                /\ Count(AssocAt(k).id, "spoke") > 0 => Count(AssocAt(k).id, "node") = 1

C2_Witness ==
    /\ canvas = "current"
    /\ \E k \in AssocIdxs :
          /\ SameEntityId(AssocAt(k)) /\ AssocAt(k).isLabelMovable /\ AllLive(AssocAt(k))
          /\ Count(AssocAt(k).id, "selfRef") = 1
          /\ Count(AssocAt(k).id, "node") = 0

\* C3: two distinct locked-binary associations on the same unordered pair of
\* entities are drawn with different offset vectors.
C3_ParallelEdgesDistinct ==
    Painted =>
        \A j, k \in AssocIdxs :
            (j # k /\ LockedPair(AssocAt(j)) /\ LockedPair(AssocAt(k))
                   /\ SamePair(AssocAt(j), AssocAt(k)))
            => TheElement(AssocAt(j).id, "binary").offset
                   # TheElement(AssocAt(k).id, "binary").offset

\* The locked-binary associations on the same pair as association k.
Siblings(k) ==
    {j \in AssocIdxs : LockedPair(AssocAt(j)) /\ SamePair(AssocAt(j), AssocAt(k))}
BorderPointsOf(j) ==
    {<<j, 1, TheElement(AssocAt(j).id, "binary").lines[1][1]>>,
     <<j, 2, TheElement(AssocAt(j).id, "binary").lines[1][2]>>}

\* C4: three locked-binary associations on the same pair get the offset
\* amounts -25, 0, +25 in input order, and their six border points are
\* pairwise different.
C4_FanOutOfThree ==
    Painted =>
        \A i, j, k \in AssocIdxs :
            (i < j /\ j < k /\ LockedPair(AssocAt(i)) /\ Siblings(i) = {i, j, k})
            => /\ TheElement(AssocAt(i).id, "binary").offsetAmount = <<QI(-25)>>
               /\ TheElement(AssocAt(j).id, "binary").offsetAmount = <<QI(0)>>
               /\ TheElement(AssocAt(k).id, "binary").offsetAmount = <<QI(25)>>
               /\ \A p, q \in BorderPointsOf(i) \cup BorderPointsOf(j) \cup BorderPointsOf(k) :
                      p # q => p[3] # q[3]

\* C5: getIntersection called with center equal to target returns that point.
C5_DegenerateReturnsPoint ==
    (call.fn = "getIntersection" /\ call.center = call.target) => ret = call.center

ShapeCall == call.fn = "getAssociationShapePoints"
ShapeCount == Len(call.association.connections)
ShapeCentre == PtI(call.association.x, call.association.y)

\* C6 as stated: four connections give a diamond, the vertices 40 above, right
\* of, below and left of the centre.
C6_Diamond ==
    (ShapeCall /\ ShapeCount = 4) =>
        ret = << Pt(ShapeCentre.x, QSub(ShapeCentre.y, QI(40))),
                 Pt(QAdd(ShapeCentre.x, QI(40)), ShapeCentre.y),
                 Pt(ShapeCentre.x, QAdd(ShapeCentre.y, QI(40))),
                 Pt(QSub(ShapeCentre.x, QI(40)), ShapeCentre.y) >>

\* C6 amended: four connections give an axis-aligned square centred on the
\* association, corners in the order top-right, bottom-right, bottom-left,
\* top-left, each at distance 40 from the centre (to the table's precision).
C6_AxisAlignedSquare ==
    (ShapeCall /\ ShapeCount = 4) =>
        LET s == QSub(ret[1].x, ShapeCentre.x)
        IN  /\ Len(ret) = 4
            /\ QPos(s)
            /\ QLess(QI(1599), QMul(QI(2), QMul(s, s)))
            /\ QLeq(QMul(QI(2), QMul(s, s)), QI(1600))
            /\ ret[1] = Pt(QAdd(ShapeCentre.x, s), QSub(ShapeCentre.y, s))
            /\ ret[2] = Pt(QAdd(ShapeCentre.x, s), QAdd(ShapeCentre.y, s))
            /\ ret[3] = Pt(QSub(ShapeCentre.x, s), QAdd(ShapeCentre.y, s))
            /\ ret[4] = Pt(QSub(ShapeCentre.x, s), QSub(ShapeCentre.y, s))

C6_Witness == ShapeCall /\ ShapeCount = 4 /\ call.association.x = 280 /\ Len(ret) = 4

\* C7: the shape has connections.length vertices from 3 connections on, and
\* 4 vertices for 0, 1 or 2 connections.
C7_VertexCount ==
    ShapeCall => Len(ret) = (IF ShapeCount >= 3 THEN ShapeCount ELSE 4)

C7_Witness ==
    ShapeCall /\ ShapeCount = 2 /\ Len(ret) = 4

\* C8: an association with more than two connections is drawn as one polygon
\* node at (x, y), never as a locked line or a loop, with exactly one spoke
\* and one cardinality marker per connection whose entity exists.
C8_PolygonWithSpokes ==
    Painted =>
        \A k \in AssocIdxs :
            Len(AssocAt(k).connections) > 2 =>
                /\ Count(AssocAt(k).id, "binary") = 0
                /\ Count(AssocAt(k).id, "selfRef") = 0
                /\ Count(AssocAt(k).id, "node") = 1
                /\ TheElement(AssocAt(k).id, "node").labelPoint
                       = <<PtI(AssocAt(k).x, AssocAt(k).y)>>
                /\ Len(TheElement(AssocAt(k).id, "node").shapePoints)
                       = Len(AssocAt(k).connections)
                /\ Count(AssocAt(k).id, "spoke") = Cardinality(LiveConns(AssocAt(k)))
                /\ \A c \in LiveConns(AssocAt(k)) :
                       /\ Cardinality(FromConnection(AssocAt(k).id, c - 1)) = 1
                       /\ \A i \in FromConnection(AssocAt(k).id, c - 1) :
                              /\ drawn[i].kind = "spoke"
                              /\ Len(drawn[i].lines) = 1
                              /\ Len(drawn[i].cardinalityPoints) = 1
                              /\ drawn[i].lines[1][1] # PtI(AssocAt(k).x, AssocAt(k).y)
                              /\ OnBorder(drawn[i].lines[1][2],
                                          entities[find(entities,
                                              AssocAt(k).connections[c].entityId)])

C8_Witness ==
    /\ Painted
    /\ \E k \in AssocIdxs :
          /\ Len(AssocAt(k).connections) = 4
          /\ ~AssocAt(k).isLabelMovable
          /\ Cardinality(LiveConns(AssocAt(k))) = 3
          /\ Count(AssocAt(k).id, "spoke") = 3
          /\ Count(AssocAt(k).id, "node") = 1

\* C9: a binary association between two distinct existing entities is one
\* direct line, emitted for connection index 0 and without a node, when it is
\* locked; a node with two spokes, one per connection, when it is movable.
C9_BinaryLockedOrMovable ==
    Painted =>
        \A k \in AssocIdxs :
            (Len(AssocAt(k).connections) = 2 /\ ~SameEntityId(AssocAt(k)) /\ AllLive(AssocAt(k)))
            => IF ~AssocAt(k).isLabelMovable
               THEN /\ Count(AssocAt(k).id, "binary") = 1
                    /\ Count(AssocAt(k).id, "node") = 0
                    /\ Count(AssocAt(k).id, "spoke") = 0
                    /\ Count(AssocAt(k).id, "selfRef") = 0
                    /\ TheElement(AssocAt(k).id, "binary").connIndex = 0
                    /\ Len(TheElement(AssocAt(k).id, "binary").lines) = 1
               ELSE /\ Count(AssocAt(k).id, "binary") = 0
                    /\ Count(AssocAt(k).id, "selfRef") = 0
                    /\ Count(AssocAt(k).id, "node") = 1
                    /\ Count(AssocAt(k).id, "spoke") = 2
                    /\ \A c \in 1..2 :
                           \E i \in FromConnection(AssocAt(k).id, c - 1) : drawn[i].kind = "spoke"

C9_Witness ==
    /\ Painted
    /\ \E j, k \in AssocIdxs :
          /\ LockedPair(AssocAt(j)) /\ Count(AssocAt(j).id, "binary") = 1
          /\ AssocAt(k).isLabelMovable /\ Len(AssocAt(k).connections) = 2
          /\ ~SameEntityId(AssocAt(k)) /\ Count(AssocAt(k).id, "spoke") = 2

\* C10: a connection whose entityId matches no entity yields no line and no
\* cardinality marker, the render does not throw, and the other connections
\* of a node-drawn association still get their spokes.
C10_DanglingSkipped ==
    Painted =>
        /\ ~Threw
        /\ \A k \in AssocIdxs :
              \A c \in 1..Len(AssocAt(k).connections) :
                  ~Live(AssocAt(k).connections[c].entityId) =>
                      /\ FromConnection(AssocAt(k).id, c - 1) = {}
                      /\ Count(AssocAt(k).id, "binary") = 0
                      /\ Count(AssocAt(k).id, "selfRef") = 0
                      /\ (Len(AssocAt(k).connections) > 2 \/ AssocAt(k).isLabelMovable) =>
                             \A o \in LiveConns(AssocAt(k)) :
                                 \E i \in FromConnection(AssocAt(k).id, o - 1) :
                                     /\ drawn[i].kind = "spoke"
                                     /\ Len(drawn[i].cardinalityPoints) = 1

C10_Witness ==
    /\ Painted
    /\ \E k \in AssocIdxs :
          /\ Len(AssocAt(k).connections) = 3
          /\ ~Live(AssocAt(k).connections[2].entityId)
          /\ Count(AssocAt(k).id, "spoke") = 2
          /\ FromConnection(AssocAt(k).id, 1) = {}

\* C12: a single locked binary association between A(0,0,160,100) and
\* B(400,0,160,100) is the line (160,50)-(400,50), labelled at (280,50), with
\* cardinality markers at (175,50) and (385,50).
C12_Case ==
    /\ Painted
    /\ entities = LayoutTriangle
    /\ Len(associations) = 1
    /\ LockedPair(AssocAt(1))
    /\ AssocAt(1).connections[1].entityId = "1"
    /\ AssocAt(1).connections[2].entityId = "2"

C12_HorizontalLine ==
    C12_Case =>
        /\ Count(AssocAt(1).id, "binary") = 1
        /\ TheElement(AssocAt(1).id, "binary").lines = << <<PtI(160, 50), PtI(400, 50)>> >>
        /\ TheElement(AssocAt(1).id, "binary").labelPoint = <<PtI(280, 50)>>
        /\ TheElement(AssocAt(1).id, "binary").cardinalityPoints
               = <<PtI(175, 50), PtI(385, 50)>>

C12_Witness == C12_Case /\ Count(AssocAt(1).id, "binary") = 1

\* Rank of association k among the associations whose two connections are
\* both on the entity of its first connection, in input order.
SelfLoopRank(k) ==
    Cardinality({j \in 1..(k - 1) :
                    /\ SameEntityId(AssocAt(j))
                    /\ AssocAt(j).connections[1].entityId = AssocAt(k).connections[1].entityId})

LockedSelfLoop(k) ==
    SameEntityId(AssocAt(k)) /\ AllLive(AssocAt(k)) /\ ~AssocAt(k).isLabelMovable

LoopEntity(k) == entities[find(entities, AssocAt(k).connections[1].entityId)]

\* The bracket of a self-loop of rank `rank` on entity e.
Bracket(e, rank) ==
    LET dims == getEntityDimensions(e)
        right == QI(e.x + dims.width)
        far == QI(e.x + dims.width + 50 + 40 * rank)
        top == QSub(getCenter(e).y, QI(15))
        bottom == QAdd(getCenter(e).y, QI(15))
    IN  << <<Pt(right, top), Pt(far, top)>>,
           <<Pt(far, top), Pt(far, bottom)>>,
           <<Pt(far, bottom), Pt(right, bottom)>> >>

C20_EndpointsOnBorder ==
    Painted =>
        \A k \in AssocIdxs :
            LockedPair(AssocAt(k)) =>
                /\ OnBorder(TheElement(AssocAt(k).id, "binary").lines[1][1],
                            entities[find(entities, AssocAt(k).connections[1].entityId)])
                /\ OnBorder(TheElement(AssocAt(k).id, "binary").lines[1][2],
                            entities[find(entities, AssocAt(k).connections[2].entityId)])

\* Display width of one attribute row, as getEntityDimensions measures it.
AttrDisplayWidth(attr) ==
    measureTextWidth(IF attr.isPk THEN attr.name \o " PK" ELSE attr.name) + PADDING

DimsCall == call.fn = "getEntityDimensions"
AppendedAttr == call.grown.attributes[Len(call.grown.attributes)]
AppendedIsWidest ==
    \A i \in 1..Len(call.entity.attributes) :
        AttrDisplayWidth(AppendedAttr) > AttrDisplayWidth(call.entity.attributes[i])

\* C14: appending one attribute never decreases the computed height, appending
\* an attribute wider than all existing ones never decreases the computed
\* width, the computed width is at least 120, and neither dimension is below
\* the requested one.
C14_DimensionsMonotone ==
    DimsCall =>
        /\ ret.after.height >= ret.before.height
        /\ AppendedIsWidest => ret.after.width >= ret.before.width
        /\ ret.before.width >= 120 /\ ret.after.width >= 120
        /\ ret.before.width >= call.entity.width
        /\ ret.before.height >= call.entity.height
        /\ ret.after.width >= call.grown.width
        /\ ret.after.height >= call.grown.height

\* The appended attribute is the widest one and makes both dimensions grow.
C14_Witness ==
    /\ DimsCall
    /\ Len(call.entity.attributes) >= 1
    /\ AppendedIsWidest
    /\ ret.after.width > ret.before.width
    /\ ret.after.height > ret.before.height
    /\ ret.before.width > 120

ReorderCall == call.fn = "reorderAttributes"
RECURSIVE Without(_, _, _)
Without(attrs, id, i) ==
    IF i > Len(attrs) THEN <<>>
    ELSE IF attrs[i].id = id THEN Without(attrs, id, i + 1)
    ELSE <<attrs[i]>> \o Without(attrs, id, i + 1)
ReorderApplies ==
    /\ call.fromId # call.toId
    /\ find(call.attributes, call.fromId) # 0
    /\ find(call.attributes, call.toId) # 0

\* C17: reorderAttributes yields a permutation of the same attribute records,
\* the moved attribute ends at the index the target had, the other attributes
\* keep their relative order; when fromId = toId or either id is absent
\* nothing is updated.
C17_ReorderIsPermutation ==
    ReorderCall =>
        IF ReorderApplies
        THEN /\ ret.updated
             /\ Len(ret.attributes) = Len(call.attributes)
             /\ \A i \in 1..Len(call.attributes) :
                    Cardinality({j \in 1..Len(ret.attributes) :
                                    ret.attributes[j] = call.attributes[i]}) = 1
             /\ ret.attributes[find(call.attributes, call.toId)]
                    = call.attributes[find(call.attributes, call.fromId)]
             /\ Without(ret.attributes, call.fromId, 1) = Without(call.attributes, call.fromId, 1)
        ELSE ~ret.updated /\ ret.attributes = call.attributes

\* An attribute was moved over at least one other attribute besides the target.
C17_Witness ==
    /\ ReorderCall /\ ReorderApplies /\ ret.updated
    /\ find(call.attributes, call.toId) - find(call.attributes, call.fromId) >= 2
    /\ ret.attributes # call.attributes

\* C15: a render pass leaves the entities list, the associations list and
\* every record in them unchanged, including the order of each association's
\* connections.
C15_RenderReadsOnly ==
    [][canvas' # canvas => entities' = entities /\ associations' = associations]_vars

\* A render of a diagram holding a binary association whose connections are
\* not in the order the pair key's sort gives.
C15_Witness ==
    /\ Painted
    /\ Len(drawn) >= 1
    /\ \E k \in AssocIdxs :
          /\ Len(AssocAt(k).connections) = 2
          /\ IdRank(AssocAt(k).connections[2].entityId)
                 < IdRank(AssocAt(k).connections[1].entityId)

\* C11: after any sequence of state-container operations from the initial
\* diagram, every Connection.entityId of every association is the id of an
\* entity in the entity list.
C11_ConnectionsReferenceLiveEntities ==
    \A k \in AssocIdxs : AllLive(AssocAt(k))

\* An entity was deleted and an association that was connected to it is
\* still in the diagram, with its remaining connections.
C11_Witness ==
    /\ Len(history) >= 1
    /\ find(entities, "2") = 0
    /\ \E k \in AssocIdxs :
          /\ AssocAt(k).id = "rel2"
          /\ Len(AssocAt(k).connections) = 2

\* The file's text is JSON for an object (or other non-null value) whose
\* `entities` and `associations` are both arrays.
BothArrays(file) ==
    /\ file.wellFormed
    /\ file.data.type = "object"
    /\ file.data.entities.type = "array"
    /\ file.data.associations.type = "array"

ErrorToast(t) == t # <<>> /\ t[1].type = "error"

\* C16: a file that fails to parse, or whose JSON does not have both
\* `entities` and `associations` as arrays, leaves entities, associations and
\* selection unchanged and raises an error notification; only when both are
\* arrays are entities and associations replaced and the selection cleared.
C16_ImportValidates ==
    [][(reading # <<>> /\ reading' = <<>>) =>
          IF BothArrays(reading[1])
          THEN /\ entities' = reading[1].data.entities.items
               /\ associations' = reading[1].data.associations.items
               /\ selectedId' = <<>> /\ selectedType' = <<>>
               /\ ~ErrorToast(toast')
          ELSE /\ UNCHANGED <<entities, associations, selectedId, selectedType>>
               /\ ErrorToast(toast')]_vars

\* A rejected file: the error is shown, the diagram and the selection made
\* before are still there.
C16_Witness ==
    /\ ErrorToast(toast)
    /\ toast[1].message = "Format de fichier invalide."
    /\ entities = initialEntities
    /\ associations = initialAssociations
    /\ selectedId # <<>>

OnGrid(x, y) == x % 10 = 0 /\ y % 10 = 0

\* C19: every position a pointer-move during a drag passes to onMove or
\* onMoveEntityBox, and every position a canvas double-click passes to
\* onCreateEntityAtPosition, has both coordinates equal to a multiple of 10:
\* an entity that appears or whose position changes, an association whose
\* position changes and an attribute box whose position is set or changes
\* are on the grid afterwards.
C19_PositionsOnGrid ==
    [][/\ \A i \in 1..Len(entities') :
             (\/ i > Len(entities)
              \/ entities'[i].x # entities[i].x
              \/ entities'[i].y # entities[i].y)
             => OnGrid(entities'[i].x, entities'[i].y)
       /\ \A i \in 1..Len(associations) :
             /\ (\/ associations'[i].x # associations[i].x
                 \/ associations'[i].y # associations[i].y)
                => OnGrid(associations'[i].x, associations'[i].y)
             /\ (\/ associations'[i].entityBoxX # associations[i].entityBoxX
                 \/ associations'[i].entityBoxY # associations[i].entityBoxY)
                => OnGrid(associations'[i].entityBoxX[1], associations'[i].entityBoxY[1])]_vars

\* An entity grabbed at a point off the grid has been dragged away from its
\* place.
C19_Witness ==
    /\ dragging # <<>>
    /\ dragging[1].type = "entity"
    /\ dragOffset.x.d # 1
    /\ \E i \in 1..Len(entities) :
          /\ entities[i].id = dragging[1].id
          /\ entities[i].x # dragging[1].startX
          /\ OnGrid(entities[i].x, entities[i].y)

\* The elements of the last render that carry the attribute box of an association.
BoxElements(assocId) ==
    {k \in 1..Len(drawn) : drawn[k].assocId = assocId /\ drawn[k].attributeBox # <<>>}

\* The default place of the box in the mode an element was drawn in: centred
\* 20 below the midpoint of a locked line, centred 30 (60 from three
\* connections on) below a node's centre, and beside a self-loop, 20 right of
\* the loop's outer edge and centred on the label's height.
DefaultBox(assoc, el) ==
    LET box == el.attributeBox[1]
        halfW == QHalf(QI(box.width))
        halfH == QHalf(QI(box.height))
    IN  IF el.kind = "binary"
        THEN Pt(QSub(el.labelPoint[1].x, halfW), QAdd(el.labelPoint[1].y, QI(20)))
        ELSE IF el.kind = "node"
        THEN Pt(QSub(QI(assoc.x), halfW),
                QI(assoc.y + (IF Len(assoc.connections) <= 2 THEN 30 ELSE 60)))
        ELSE LET entity1 == entities[find(entities, assoc.connections[1].entityId)]
             IN  Pt(QI(entity1.x + getEntityDimensions(entity1).width + 50 + 20),
                    QSub(el.labelPoint[1].y, halfH))

BoxIffAttributes ==
    Painted => \A i \in 1..Len(associations) :
        Cardinality(BoxElements(associations[i].id)) = 1 <=> Len(associations[i].attributes) > 0

BoxWhereStoredOrDefault ==
    Painted => \A i \in 1..Len(associations) : \A k \in BoxElements(associations[i].id) :
        LET assoc == associations[i]
            box == drawn[k].attributeBox[1]
        IN  /\ box.anchorLine.from = drawn[k].labelPoint[1]
            /\ IF assoc.entityBoxX # <<>>
               THEN box.x = QI(assoc.entityBoxX[1]) /\ box.y = QI(assoc.entityBoxY[1])
               ELSE Pt(box.x, box.y) = DefaultBox(assoc, drawn[k])

DeletesEntity(id) ==
    /\ find(entities, id) # 0
    /\ find(entities', id) = 0
    /\ history' = Append(history, [entities |-> entities, associations |-> associations])

TouchesEntity(assoc, id) == \E c \in DOMAIN assoc.connections : assoc.connections[c].entityId = id

\* The associations that outlive entity `id`, in their order: those not
\* connected to it and those with more than two connections.
Survivors(id) ==
    LET outlives(assoc) == ~TouchesEntity(assoc, id) \/ Len(assoc.connections) > 2
    IN  SelectSeq(associations, outlives)

WithoutConnectionsTo(assoc, id) ==
    LET elsewhere(c) == c.entityId # id
    IN  [assoc EXCEPT !.connections = SelectSeq(assoc.connections, elsewhere)]

\* C21: deleting entity E removes E from the entity list, removes every
\* association connected to E that has at most two connections, replaces
\* every association connected to E that has more than two by a copy without
\* its connections to E, leaves the other associations as they are and in
\* their order, and clears the selection.
C21_DeleteEntityCascades ==
    [][\A id \in EntityIdsNow :
          DeletesEntity(id) =>
              /\ LET others(e) == e.id # id IN entities' = SelectSeq(entities, others)
              /\ Len(associations') = Len(Survivors(id))
              /\ \A i \in 1..Len(Survivors(id)) :
                     associations'[i] =
                         IF TouchesEntity(Survivors(id)[i], id)
                         THEN WithoutConnectionsTo(Survivors(id)[i], id)
                         ELSE Survivors(id)[i]
              /\ selectedId' = <<>>
              /\ selectedType' = <<>>]_vars

\* Entity 2 was deleted while rel2 had three connections: rel1 went with it,
\* rel2 stays with its connections to the two other entities.
C21_Witness ==
    /\ history # <<>>
    /\ find(history[Len(history)].entities, "2") # 0
    /\ find(entities, "2") = 0
    /\ \E k \in 1..Len(history[Len(history)].associations) :
          /\ history[Len(history)].associations[k].id = "rel2"
          /\ Len(history[Len(history)].associations[k].connections) = 3
    /\ Len(associations) = 1
    /\ associations[1].id = "rel2"
    /\ Len(associations[1].connections) = 2
    /\ selectedId = <<>>

Snapshot == [entities |-> entities, associations |-> associations]

\* A step that edits the diagram and is not an undo: one that saved a
\* snapshot first.
SavesSnapshot ==
    /\ <<entities, associations>>' # <<entities, associations>>
    /\ Len(history') >= Len(history)

\* C27: the undo history never holds more than 50 snapshots; a snapshot saved
\* with 50 stored drops the oldest one and keeps the 49 most recent and the
\* new one in order, and one saved with fewer stored is appended.
C27_HistoryBounded ==
    /\ [](Len(history) <= maxHistorySize)
    /\ [][SavesSnapshot =>
              IF Len(history) = maxHistorySize
              THEN history' = Append(Tail(history), Snapshot)
              ELSE history' = Append(history, Snapshot)]_vars

\* Fifty snapshots are stored and the oldest of them is no longer the
\* initial diagram: a snapshot was dropped.
C27_Witness ==
    /\ Len(history) = maxHistorySize
    /\ history[1] # [entities |-> initialEntities, associations |-> initialAssociations]

\* Ctrl+Z outside an input field.
Undo == handleKeyDown("z") /\ AppFrame

\* C28: undo with a non-empty history sets entities and associations to the
\* pair of the most recent snapshot, removes that one snapshot and clears
\* the selection; undo with an empty history changes nothing.
C28_UndoRestoresLastSnapshot ==
    /\ [](Len(history) = 0 => ~ENABLED <<Undo>>_vars)
    /\ [][Len(history') < Len(history) =>
              /\ entities' = history[Len(history)].entities
              /\ associations' = history[Len(history)].associations
              /\ history' = SubSeq(history, 1, Len(history) - 1)
              /\ selectedId' = <<>>
              /\ selectedType' = <<>>]_vars

\* An undo took the second of two snapshots: the first is still stored and
\* the diagram is the one the second edit started from.
C28_Witness ==
    /\ toast = Some([message |-> "Annule", type |-> "success"])
    /\ history = <<[entities |-> initialEntities, associations |-> initialAssociations]>>
    /\ <<entities, associations>> # <<initialEntities, initialAssociations>>
    /\ selectedId = <<>>

\* The cases in which handleQuickConnect returns before it sets anything:
\* the source or target entity is not found, the source association is not
\* found or is already connected to the target.
ConnectsNothing(sourceId, sourceType, targetEntityId) ==
    IF sourceType = "entity"
    THEN find(entities, sourceId) = 0 \/ find(entities, targetEntityId) = 0
    ELSE \/ find(associations, sourceId) = 0
         \/ TouchesEntity(associations[find(associations, sourceId)], targetEntityId)

\* The mouse-up under pointer e ends a connection gesture on an entity other
\* than its source, and so calls onQuickConnect.
ReleasesOn(e, target) ==
    /\ marquee = <<>>
    /\ connectionMode # <<>>
    /\ target = entityUnder(e, 1)
    /\ target # 0
    /\ entities[target].id # connectionMode[1].sourceId
    /\ handleMouseUp(e)

\* C29: a quick-connect that changes nothing, because the source association
\* is already connected to the target entity or because the source or target
\* is not found, leaves entities, associations, selection and the undo
\* history unchanged.
C29_IdleQuickConnectSavesNothing ==
    [][\A e \in Plain(TravelPoints), target \in 0..Len(entities) :
          (/\ ReleasesOn(e, target)
           /\ ConnectsNothing(connectionMode[1].sourceId, connectionMode[1].sourceType,
                              entities[target].id))
          => UNCHANGED <<entities, associations, selectedId, selectedType, history>>]_vars

\* C30: after any sequence of additions, quick connects, updates, deletions,
\* selections, clears, imports and undos, the selection is empty, or
\* selectedId is the id of an entity of the entity list when selectedType is
\* 'entity' and of an association of the association list when it is
\* 'association'.
C30_SelectionIsLive ==
    \/ selectedId = <<>> /\ selectedType = <<>>
    \/ /\ selectedId # <<>>
       /\ selectedType = Some("entity")
       /\ find(entities, selectedId[1]) # 0
    \/ /\ selectedId # <<>>
       /\ selectedType = Some("association")
       /\ find(associations, selectedId[1]) # 0

\* The association a quick connect made is selected, after an earlier edit.
C30_Witness ==
    /\ Len(history) = 2
    /\ selectedId = Some("u1")
    /\ selectedType = Some("association")
    /\ find(associations, "u1") # 0

\* A binary association whose isLabelMovable is falsy and whose two entities
\* are distinct.
LockedBinary(assoc) ==
    /\ Len(assoc.connections) = 2
    /\ ~assoc.isLabelMovable
    /\ assoc.connections[1].entityId # assoc.connections[2].entityId

\* C23: a mouse-down on a binary association whose isLabelMovable is falsy
\* and whose two entities are distinct never makes it the dragged item, and
\* no step changes its x or y.
C23_LockedBinaryIsNotDragged ==
    /\ [](\A i \in 1..Len(associations) :
             (/\ dragging # <<>>
              /\ dragging[1].type = "association"
              /\ dragging[1].id = associations[i].id)
             => ~LockedBinary(associations[i]))
    /\ [][\A i \in 1..Len(associations) :
             (/\ LockedBinary(associations[i])
              /\ i <= Len(associations')
              /\ associations'[i].id = associations[i].id)
             => /\ associations'[i].x = associations[i].x
                /\ associations'[i].y = associations[i].y]_vars

\* The button went down on the locked binary rel2, which is selected now,
\* and nothing is being dragged.
C23_Witness ==
    /\ selectedId = Some("rel2")
    /\ selectedType = Some("association")
    /\ LockedBinary(associations[find(associations, "rel2")])
    /\ dragging = <<>>
    /\ connectionMode = <<>>

\* C25: after every mouse-up, whatever presses, moves and key events came
\* before it, the canvas is in neither dragging, connection nor marquee
\* mode; and a mouse-up calls onQuickConnect at most once, only in connection
\* mode with the pointer inside an entity other than the connection source.
C25_MouseUpEndsEveryMode ==
    [][\A e \in Plain(TravelPoints) :
          handleMouseUp(e) =>
              /\ dragging' = <<>>
              /\ connectionMode' = <<>>
              /\ marquee' = <<>>
              /\ history' # history =>
                     /\ history' = Append(history, Snapshot)
                     /\ connectionMode # <<>>
                     /\ entityUnder(e, 1) # 0
                     /\ entities[entityUnder(e, 1)].id # connectionMode[1].sourceId]_vars

\* C24: in connection mode, pressing Escape or releasing Control or Meta is
\* handled and returns the canvas to no connection mode, and that key event
\* performs no quick-connect: the diagram, the selection and the history
\* stay as they are.
C24_KeyCancelsConnectionMode ==
    /\ [](connectionMode # <<>> => ENABLED KeyCancel)
    /\ [](call.fn = "cancelConnectionMode" => connectionMode = <<>>)
    /\ [][call'.fn = "cancelConnectionMode" =>
              /\ connectionMode # <<>>
              /\ connectionMode' = <<>>
              /\ UNCHANGED <<entities, associations, history, selectedId, selectedType>>]_vars

\* The key listener has just ended a connection gesture whose source is
\* still selected.
C24_Witness ==
    /\ call.fn = "cancelConnectionMode"
    /\ connectionMode = <<>>
    /\ selectedId # <<>>

\* C26: when a drag of an attribute box starts and the first pointer-move
\* has zero displacement, the position passed to onMoveEntityBox is the box's
\* drawn top-left position rounded to the 10-grid, whether entityBoxX/Y are
\* set or the box is at the default of its mode.
C26_StillBoxStaysInPlace ==
    [][\A p \in DrawnBoxes :
          (/\ dragging # <<>>
           /\ dragging[1].type = "entityBox"
           /\ dragging[1].id = associations[p[1]].id
           /\ handleMouseMove(PressPoint))
          => /\ associations'[p[1]].entityBoxX = Some(snapped(drawn[p[2]].attributeBox[1].x))
             /\ associations'[p[1]].entityBoxY = Some(snapped(drawn[p[2]].attributeBox[1].y))]_vars

\* C22: for every entity, the width and height getEntityDimensions returns
\* when text width falls back to 8 px per character are the width and
\* height the EntityBox component draws and the PNG export assumes.
C22_DimensionsAgree ==
    call.fn = "getEntityDimensions" =>
        /\ ret.before = EntityBox(call.entity)
        /\ ret.before = getEntityDims(call.entity)
        /\ ret.after = EntityBox(call.grown)
        /\ ret.after = getEntityDims(call.grown)

====
